---- MODULE Spec2Model ----
(***************************************************************************)
(* Verification model of the consensus & state core of gossamer:           *)
(*   - the GRANDPA vote validator (package grandpa, vote_message.go)        *)
(*   - the BABE epoch state       (package state, epoch.go)                 *)
(*                                                                         *)
(* Collaborators whose code is outside the modelled sources (block state,  *)
(* network, tracker, ed25519, SCALE) are modelled at their interface: the   *)
(* answers of the block state to HasHeader / IsDescendantOf and the         *)
(* outcome of network.SendMessage are inputs of the call; the calls the     *)
(* handler issues on the tracker and on the network are recorded.  Storage  *)
(* I/O failures of the key-value store are modelled for the batches of the  *)
(* trie only: a Put in a batch or the Flush of a batch may fail.            *)
(***************************************************************************)
EXTENDS Integers, Naturals, Sequences, FiniteSets, TLC

VARIABLES
    \* ---- GRANDPA service (grandpa.Service) ----
    round,            \* s.state.round
    setID,            \* s.state.setID
    voters,           \* s.state.voters, as the set of their public keys
    finalised,        \* block state: round -> hash finalised in that round (current set)
    prevotes,         \* s.prevotes      : authority -> SignedVote
    precommits,       \* s.precommits    : authority -> SignedVote
    pvEquivocations,  \* s.pvEquivocations : authority -> sequence of SignedVote
    pcEquivocations,  \* s.pcEquivocations : authority -> sequence of SignedVote
    \* ---- one validateVoteMessage call, as receiveVoteMessages drives it ----
    pc,               \* "idle": waiting on the in channel; "done": a call has returned
    call,             \* the arguments (and collaborator answers) of the call that returned
    ret,              \* what that call returned: [vote, err]
    trackerAdds,      \* tracker.addVote calls issued by that call: sequence of [from, msg]
    sent,             \* network.SendMessage calls issued by that call: sequence of [to, msg, ok]
    calls,            \* number of validateVoteMessage calls made so far
    \* ---- BABE epoch state (state.EpochState) and the block state it consults ----
    epochLength,      \* s.epochLength, in slots
    firstSlot,        \* base state: the value under firstSlotKey
    epochData,        \* epoch table of the database: epoch -> stored EpochDataRaw
    nextEpochData,    \* s.nextEpochData: epoch -> (announcing block hash -> NextEpochData)
    headerDB,         \* block state: hashes whose header is in the database
    highestFinalisedNumber, \* block state: number of the highest finalised header
    currentEpoch,     \* epoch table of the database: the value under currentEpochKey
    ecall,            \* the last operation called on the epoch state, with its arguments
    eret,             \* what that operation returned
    \* ---- state trie (trie.Trie) and its database (chaindb.Database) ----
    tkv,              \* the key/value pairs the callers have put in the trie
    troot,            \* t.root: the root node, with its descendants
    tdb,              \* the database: key (hash bytes) -> encoded node
    tcall,            \* the last operation called on the trie, with the key it looked up
    tret,             \* what that operation returned
    \* ---- the in channel and the context of receiveVoteMessages ----
    inq,              \* s.in: the messages sent and not yet received
    inClosed,         \* s.in has been closed
    ctxDone,          \* ctx has been cancelled
    reads,            \* the number of messages receiveVoteMessages has received
    \* ---- core service (core.Service), block state and transaction state ----
    blocks,           \* block state: hash -> [parent, number, body]
    runtimes,         \* block state: the runtime registry, hash -> runtime instance
    pool,             \* transaction state: extrinsic -> validity
    ccall,            \* the last call on the core service and its arguments
    cret,             \* what that call returned
    \* ---- BABE epoch state: configuration data ----
    configData,       \* epoch table of the database: epoch -> encoded ConfigData
    latestConfigEpoch,\* epoch table of the database: the value under latestConfigDataKey
    nextConfigData,   \* s.nextConfigData: epoch -> hash -> NextConfigData
    \* ---- a caller of GetEpochData, concurrent with the writers of the epoch state ----
    reading,          \* the call under way between its database and its memory lookup
    \* ---- state trie: the child tries it owns ----
    childTries        \* t.childTries: root hash at registration -> root node of the child trie

gvars == <<round, setID, voters, finalised, prevotes, precommits,
           pvEquivocations, pcEquivocations, pc, call, ret, trackerAdds, sent, calls>>

evars == <<epochLength, firstSlot, epochData, nextEpochData, headerDB,
           highestFinalisedNumber, currentEpoch, ecall, eret>>

tvars == <<tkv, troot, tdb, tcall, tret>>

lvars == <<inq, inClosed, ctxDone, reads>>

cvars == <<blocks, runtimes, pool, ccall, cret>>

kvars == <<configData, latestConfigEpoch, nextConfigData>>

rvars == <<reading>>

hvars == <<childTries>>

vars == <<gvars, evars, tvars, lvars, cvars, kvars, rvars, hvars>>

-----------------------------------------------------------------------------
(* Bounds of the model *)

\* uint64 arithmetic is modelled modulo 2^WordBits
WordBits == 3
\* the service round is driven from 0 to MaxRound
MaxRound == 2
\* number of validateVoteMessage calls in one behaviour
MaxCalls == 2
MaxVotes == 3

\* slot numbers carried by headers range over 0 .. MaxSlot
MaxSlot == 3
\* the genesis configuration has an epoch length in 1 .. MaxEpochLength
MaxEpochLength == 2
\* next-epoch data is announced for the epochs 1 .. MaxEpoch
MaxEpoch == 2
\* the block state finalises blocks up to this number
MaxFinalisedNumber == 1
\* up to MaxAnnounced announcements of next-epoch data are held in memory
MaxAnnounced == 2
\* the block state holds up to MaxBlocks blocks after the genesis block
MaxBlocks == 2
\* a trie holds up to MaxEntries key/value pairs
MaxEntries == 3
\* the trie is updated and written while the database holds up to MaxStored nodes
MaxStored == 3
\* a proof holds up to MaxProofLen encoded nodes
MaxProofLen == 3
\* receiveVoteMessages is sent up to MaxReads messages
MaxReads == 3
\* a database lets up to MaxPuts Puts and up to MaxFlushes Flushes succeed before one fails
MaxPuts == 5
MaxFlushes == 2

Modulus == 2 ^ WordBits

(* Program constants *)
maxRoundsLag == 1
maxRoundsAhead == 1

-----------------------------------------------------------------------------
(* Domains of the inputs *)

OwnKey == "self"
Keys == {"self", "a1", "a2"}
\* the voter sets a service is constructed with: one without "a2", one without the own key
VoterSets == {{"self", "a1"}, {"a1", "a2"}}
Peers == {"p1", "p2"}
Hashes == {"b1", "b2"}
Stages == {"primaryProposal", "prevote", "precommit"}
MsgRounds == 0 .. (MaxRound + 2)

NumberOf(hash) == IF hash = "b1" THEN 1 ELSE 2

\* answers of blockState.IsDescendantOf
AncestryAnswers == {"descendant", "notDescendant", "ErrDescendantNotFound",
                    "ErrEndNodeNotFound", "ErrStartNodeNotFound"}

-----------------------------------------------------------------------------
(* Maps (Go map / sync.Map) as functions on the set of their keys *)

EmptyMap == [k \in {} |-> k]
Has(m, k) == k \in DOMAIN m
Store(m, k, v) == [x \in (DOMAIN m) \cup {k} |-> IF x = k THEN v ELSE m[x]]
Delete(m, k) == [x \in (DOMAIN m) \ {k} |-> m[x]]

-----------------------------------------------------------------------------
(* uint64 arithmetic *)

USub(a, b) == (a - b + Modulus) % Modulus
UAdd(a, b) == (a + b) % Modulus

-----------------------------------------------------------------------------
(* Votes, messages, signatures *)

NewVote(hash, number) == [hash |-> hash, number |-> number]

FullVote(stage, vote, rnd, sid) ==
    [stage |-> stage, vote |-> vote, round |-> rnd, setID |-> sid]

\* an ed25519 signature: who signed, and what
Sign(key, payload) == [by |-> key, over |-> payload]
Verify(pk, payload, sig) == sig.by = pk /\ sig.over = payload

ErrNil == "nil"
\* the nil *Vote
NoVote == [hash |-> "nil", number |-> 0]

\* validateMessageSignature without its "if !ok" branch
validateMessageSignature_VerdictIgnored(pk, m) == ErrNil

validateMessageSignature(pk, m) ==
    LET msg == FullVote(m.message.stage,
                        NewVote(m.message.blockHash, m.message.number),
                        m.round, m.setID)
    IN  IF Verify(pk, msg, m.message.signature) THEN ErrNil ELSE "ErrInvalidSignature"

\* the three signatures a message of authority a may carry: the right one, one made
\* by another key, one made by a over the same vote in the next round
OtherKey(a) == IF a = "a1" THEN "a2" ELSE "a1"
Signatures(a, stage, hash, rnd, sid) ==
    LET fv == FullVote(stage, NewVote(hash, NumberOf(hash)), rnd, sid)
    IN  { Sign(a, fv),
          Sign(OtherKey(a), fv),
          Sign(a, FullVote(stage, NewVote(hash, NumberOf(hash)), UAdd(rnd, 1), sid)) }

VoteMessage(rnd, sid, stage, hash, sig, a) ==
    [round |-> rnd, setID |-> sid,
     message |-> [stage |-> stage, blockHash |-> hash, number |-> NumberOf(hash),
                  signature |-> sig, authorityID |-> a]]

\* the set ids a message may carry: the current one and its two neighbours
MsgSetIDs == {USub(setID, 1), setID, UAdd(setID, 1)}

-----------------------------------------------------------------------------------------------------------------------------------------------------
(* Collaborators of validateVoteMessage *)

\* the block the voters finalise in round rnd
FinalisedIn(rnd) == IF rnd % 2 = 0 THEN "b1" ELSE "b2"

\* blockState.GetFinalisedHeader(round, setID): the header finalised in that round
GetFinalisedHeader(rnd, sid) ==
    IF sid = setID /\ rnd \in DOMAIN finalised
    THEN [header |-> finalised[rnd], err |-> ErrNil]
    ELSE [header |-> "nil", err |-> "ErrFinalisedHeaderNotFound"]

\* s.newCommitMessage(header, round) followed by cm.ToConsensusMessage()
newCommitMessage(header, rnd) ==
    [type |-> "commit", round |-> rnd, setID |-> setID, hash |-> header]

\* s.state.pubkeyToVoter(pk)
pubkeyToVoter(pk) ==
    IF pk \in voters THEN [voter |-> pk, err |-> ErrNil]
    ELSE [voter |-> "nil", err |-> "ErrVoterNotFound"]

\* the map s.loadVote(key, stage) and s.deleteVote(key, stage) work on
StageMap(stage, pv, pcm) == IF stage = "precommit" THEN pcm ELSE pv

-----------------------------------------------------------------------------
(* validateVote: the block voted for exists and descends from s.head.       *)
(* has is the answer of blockState.HasHeader(v.Hash), anc the answer of      *)
(* blockState.IsDescendantOf(s.head.Hash(), v.Hash).                         *)

\* validateVote without its "if !isDescendant" branch
validateVote_NoAncestry(v, has, anc) ==
    IF ~has THEN "ErrBlockDoesNotExist"
    ELSE IF anc \in {"ErrDescendantNotFound", "ErrEndNodeNotFound", "ErrStartNodeNotFound"}
         THEN anc
    ELSE ErrNil

validateVote(v, has, anc) ==
    IF ~has THEN "ErrBlockDoesNotExist"
    ELSE IF anc \in {"ErrDescendantNotFound", "ErrEndNodeNotFound", "ErrStartNodeNotFound"}
         THEN anc
    ELSE IF anc # "descendant" THEN "errVoteBlockMismatch"
    ELSE ErrNil

\* the errors after which validateVoteMessage hands the message to the tracker
IsBlockNotFound_OneForgotten(err) ==
    err \in {"ErrBlockDoesNotExist", "ErrDescendantNotFound", "ErrEndNodeNotFound"}

IsBlockNotFound(err) ==
    err \in {"ErrBlockDoesNotExist", "ErrDescendantNotFound",
             "ErrEndNodeNotFound", "ErrStartNodeNotFound"}

-----------------------------------------------------------------------------
(* checkForEquivocation: returns whether the vote is equivocatory and the    *)
(* maps as it leaves them.                                                   *)

EquivocationResult(equivocated, pv, pcm, pve, pce) ==
    [equivocated |-> equivocated, prevotes |-> pv, precommits |-> pcm,
     pvEq |-> pve, pcEq |-> pce]

\* checkForEquivocation without its s.deleteVote(v, stage)
checkForEquivocation_NoDelete(voter, vote, stage) ==
    LET v == voter
        isPc == stage = "precommit"
        eq == IF isPc THEN pcEquivocations ELSE pvEquivocations
        votes == StageMap(stage, prevotes, precommits)
        withEq(neq) ==
            EquivocationResult(TRUE, prevotes, precommits,
                               IF isPc THEN pvEquivocations ELSE neq,
                               IF isPc THEN neq ELSE pcEquivocations)
        keep == EquivocationResult(FALSE, prevotes, precommits,
                                   pvEquivocations, pcEquivocations)
    IN  IF Has(eq, v) THEN withEq(Store(eq, v, Append(eq[v], vote)))
        ELSE IF ~Has(votes, v) THEN keep
        ELSE IF votes[v].vote.hash # vote.vote.hash
        THEN withEq(Store(eq, v, <<votes[v], vote>>))
        ELSE keep

\* checkForEquivocation letting an equivocator repeat a vote it has cast before
checkForEquivocation_RepeatAccepted(voter, vote, stage) ==
    LET v == voter
        isPc == stage = "precommit"
        eq == IF isPc THEN pcEquivocations ELSE pvEquivocations
        votes == StageMap(stage, prevotes, precommits)
        withEq(neq) ==
            EquivocationResult(TRUE,
                               IF isPc THEN prevotes ELSE Delete(prevotes, v),
                               IF isPc THEN Delete(precommits, v) ELSE precommits,
                               IF isPc THEN pvEquivocations ELSE neq,
                               IF isPc THEN neq ELSE pcEquivocations)
        keep == EquivocationResult(FALSE, prevotes, precommits,
                                   pvEquivocations, pcEquivocations)
    IN  IF Has(eq, v)
        THEN IF \E i \in 1 .. Len(eq[v]) : eq[v][i].vote.hash = vote.vote.hash
             THEN keep
             ELSE withEq(Store(eq, v, Append(eq[v], vote)))
        ELSE IF ~Has(votes, v) THEN keep
        ELSE IF votes[v].vote.hash # vote.vote.hash
        THEN withEq(Store(eq, v, <<votes[v], vote>>))
        ELSE keep

\* checkForEquivocation without the comparison of the two block hashes
checkForEquivocation_AnySecondVote(voter, vote, stage) ==
    LET v == voter
        isPc == stage = "precommit"
        eq == IF isPc THEN pcEquivocations ELSE pvEquivocations
        votes == StageMap(stage, prevotes, precommits)
        withEq(neq, pv, pcm) ==
            EquivocationResult(TRUE, pv, pcm,
                               IF isPc THEN pvEquivocations ELSE neq,
                               IF isPc THEN neq ELSE pcEquivocations)
    IN  IF Has(eq, v)
        THEN withEq(Store(eq, v, Append(eq[v], vote)), prevotes, precommits)
        ELSE IF ~Has(votes, v)
        THEN EquivocationResult(FALSE, prevotes, precommits,
                                pvEquivocations, pcEquivocations)
        ELSE withEq(Store(eq, v, <<votes[v], vote>>),
                    IF isPc THEN prevotes ELSE Delete(prevotes, v),
                    IF isPc THEN Delete(precommits, v) ELSE precommits)

checkForEquivocation(voter, vote, stage) ==
    LET v == voter
        isPc == stage = "precommit"
        eq == IF isPc THEN pcEquivocations ELSE pvEquivocations
        votes == StageMap(stage, prevotes, precommits)
        keep == EquivocationResult(FALSE, prevotes, precommits,
                                   pvEquivocations, pcEquivocations)
    IN  IF Has(eq, v)
        THEN \* the voter has already equivocated: every vote is equivocatory
             LET neq == Store(eq, v, Append(eq[v], vote))
             IN  EquivocationResult(TRUE, prevotes, precommits,
                                    IF isPc THEN pvEquivocations ELSE neq,
                                    IF isPc THEN neq ELSE pcEquivocations)
        ELSE IF ~Has(votes, v) THEN keep
        ELSE IF votes[v].vote.hash # vote.vote.hash
        THEN \* the voter has already voted: both votes are now equivocatory
             LET neq == Store(eq, v, <<votes[v], vote>>)
             IN  EquivocationResult(TRUE,
                                    IF isPc THEN prevotes ELSE Delete(prevotes, v),
                                    IF isPc THEN Delete(precommits, v) ELSE precommits,
                                    IF isPc THEN pvEquivocations ELSE neq,
                                    IF isPc THEN neq ELSE pcEquivocations)
        ELSE keep

-----------------------------------------------------------------------------
(* validateVoteMessage(from, m), under roundLock for the whole call.         *)
(* Returns the vote and error of the Go function together with the maps as   *)
(* the call leaves them and the calls it issued on tracker and network.      *)

Outcome(vote, err, pv, pcm, pve, pce, adds, sends) ==
    [vote |-> vote, err |-> err, prevotes |-> pv, precommits |-> pcm,
     pvEq |-> pve, pcEq |-> pce, adds |-> adds, sends |-> sends]

\* a return that leaves the four maps as they are
Return(vote, err, adds, sends) ==
    Outcome(vote, err, prevotes, precommits, pvEquivocations, pcEquivocations, adds, sends)

\* the set id check, rejecting only messages of a later set
SetIDMismatch_OnlyLater(m) == m.setID > setID

SetIDMismatch(m) == m.setID # setID

minRoundAccepted ==
    LET minRound == USub(round, maxRoundsLag)
    IN  IF minRound > round THEN 0 ELSE minRound

\* the upper end of the window, one round too far
maxRoundAccepted_TwoAhead == UAdd(round, maxRoundsAhead + 1)

maxRoundAccepted == UAdd(round, maxRoundsAhead)

OutsideWindow(m) == m.round < minRoundAccepted \/ m.round > maxRoundAccepted

\* the reply to a lagging peer, returning the error of a failed send
replyToLaggingPeer_SendErrorReturned(from, m, sendOK) ==
    LET fin == GetFinalisedHeader(m.round, m.setID)
    IN  IF fin.err # ErrNil
        THEN Return(NoVote, fin.err, <<>>, <<>>)
        ELSE Return(NoVote, IF sendOK THEN "errRoundMismatch" ELSE "ErrSendFailed", <<>>,
                    << [to |-> from, msg |-> newCommitMessage(fin.header, m.round),
                        ok |-> sendOK] >>)

\* m.Round < s.state.round: send the commit message of that round back to the peer
replyToLaggingPeer(from, m, sendOK) ==
    LET fin == GetFinalisedHeader(m.round, m.setID)
    IN  IF fin.err # ErrNil
        THEN Return(NoVote, fin.err, <<>>, <<>>)
        ELSE Return(NoVote, "errRoundMismatch", <<>>,
                    << [to |-> from, msg |-> newCommitMessage(fin.header, m.round),
                        ok |-> sendOK] >>)

\* the deferral of a vote of the next round, without its tracker.addVote
deferToTracker_NotAdded(from, m) ==
    Return(NoVote, "errRoundMismatch", <<>>, <<>>)

\* m.Round > s.state.round: keep the message in the tracker
deferToTracker(from, m) ==
    Return(NoVote, "errRoundMismatch", << [from |-> from, msg |-> m] >>, <<>>)

\* the own-key check, comparing the block hash bytes instead of the authority id
IsVoteFromSelf_WrongField(m) == m.message.blockHash = OwnKey

IsVoteFromSelf(m) == m.message.authorityID = OwnKey

\* the store of an accepted vote, into prevotes and precommits alike
storeCheckedVote_BothMaps(m) ==
    LET pk == m.message.authorityID
        vote == NewVote(m.message.blockHash, m.message.number)
        just == [vote |-> vote, signature |-> m.message.signature, authorityID |-> pk]
        eqv == checkForEquivocation(pk, just, m.message.stage)
    IN  IF eqv.equivocated
        THEN Outcome(NoVote, "ErrEquivocation", eqv.prevotes, eqv.precommits,
                     eqv.pvEq, eqv.pcEq, <<>>, <<>>)
        ELSE Outcome(vote, ErrNil, Store(eqv.prevotes, pk, just),
                     Store(eqv.precommits, pk, just), eqv.pvEq, eqv.pcEq, <<>>, <<>>)

\* the equivocation check and the store of a message that has passed the checks
storeCheckedVote(m) ==
    LET pk == m.message.authorityID
        vote == NewVote(m.message.blockHash, m.message.number)
        just == [vote |-> vote, signature |-> m.message.signature, authorityID |-> pk]
        eqv == checkForEquivocation(pk, just, m.message.stage)
    IN  IF eqv.equivocated
        THEN Outcome(NoVote, "ErrEquivocation", eqv.prevotes, eqv.precommits,
                     eqv.pvEq, eqv.pcEq, <<>>, <<>>)
        ELSE Outcome(vote, ErrNil,
                     IF m.message.stage = "precommit" THEN eqv.prevotes
                     ELSE Store(eqv.prevotes, pk, just),
                     IF m.message.stage = "precommit" THEN Store(eqv.precommits, pk, just)
                     ELSE eqv.precommits,
                     eqv.pvEq, eqv.pcEq, <<>>, <<>>)

validateVoteMessage(from, m, has, anc, sendOK) ==
    LET pk == m.message.authorityID
        sigErr == validateMessageSignature(pk, m)
        vtr == pubkeyToVoter(pk)
        vote == NewVote(m.message.blockHash, m.message.number)
        verr == validateVote(vote, has, anc)
    IN  IF sigErr # ErrNil THEN Return(NoVote, sigErr, <<>>, <<>>)
        ELSE IF SetIDMismatch(m) THEN Return(NoVote, "ErrSetIDMismatch", <<>>, <<>>)
        ELSE IF OutsideWindow(m) THEN Return(NoVote, ErrNil, <<>>, <<>>)
        ELSE IF m.round < round THEN replyToLaggingPeer(from, m, sendOK)
        ELSE IF m.round > round THEN deferToTracker(from, m)
        ELSE IF vtr.err # ErrNil THEN Return(NoVote, vtr.err, <<>>, <<>>)
        ELSE IF IsVoteFromSelf(m) THEN Return(NoVote, "errVoteFromSelf", <<>>, <<>>)
        ELSE IF verr # ErrNil
        THEN Return(NoVote, verr,
                    IF IsBlockNotFound(verr) THEN << [from |-> from, msg |-> m] >> ELSE <<>>,
                    <<>>)
        ELSE storeCheckedVote(m)

\* which collaborators the call consults, as the code reaches them
ReachesBlockCheck(m) ==
    /\ validateMessageSignature(m.message.authorityID, m) = ErrNil
    /\ m.setID = setID
    /\ m.round = round
    /\ m.message.authorityID \in voters
    /\ m.message.authorityID # OwnKey

ReachesSend(m) ==
    /\ validateMessageSignature(m.message.authorityID, m) = ErrNil
    /\ m.setID = setID
    /\ round > 0
    /\ m.round = round - 1
    /\ GetFinalisedHeader(m.round, m.setID).err = ErrNil

-----
(* The actions of the GRANDPA specification *)

NoCall == [from |-> "nil"]
NoRet == [vote |-> NoVote, err |-> ErrNil]

GInit ==
    /\ round = 0
    /\ setID = 1
    /\ voters \in VoterSets
    /\ finalised = EmptyMap
    /\ prevotes = EmptyMap
    /\ precommits = EmptyMap
    /\ pvEquivocations = EmptyMap
    /\ pcEquivocations = EmptyMap
    /\ pc = "idle"
    /\ call = NoCall
    /\ ret = NoRet
    /\ trackerAdds = <<>>
    /\ sent = <<>>
    /\ calls = 0
    /\ inq = <<>>
    /\ inClosed = FALSE
    /\ ctxDone = FALSE
    /\ reads = 0

\* one validateVoteMessage(from, m) call with the answers of its collaborators
ValidateVoteMessage(from, m, has, anc, sendOK) ==
    /\ LET out == validateVoteMessage(from, m, has, anc, sendOK)
       IN  /\ prevotes' = out.prevotes
           /\ precommits' = out.precommits
           /\ pvEquivocations' = out.pvEq
           /\ pcEquivocations' = out.pcEq
           /\ ret' = [vote |-> out.vote, err |-> out.err]
           /\ trackerAdds' = out.adds
           /\ sent' = out.sends
    /\ call' = [from |-> from, m |-> m, has |-> has, anc |-> anc, sendOK |-> sendOK]
    /\ pc' = "done"
    /\ calls' = calls + 1
    /\ UNCHANGED <<round, setID, voters, finalised>>
    /\ UNCHANGED evars
    /\ UNCHANGED tvars
    /\ UNCHANGED cvars
    /\ UNCHANGED kvars
    /\ UNCHANGED rvars
    /\ UNCHANGED hvars

\* receiveVoteMessages reads (from, m) off the in channel and calls validateVoteMessage;
\* a collaborator the call does not reach gives no answer (its input is fixed)
ReceiveVoteMessage ==
    /\ pc = "idle"
    /\ calls < MaxCalls
    /\ \E from \in Peers, r \in MsgRounds, s \in MsgSetIDs, st \in Stages,
          h \in Hashes, a \in Keys :
         \E sig \in Signatures(a, st, h, r, s) :
            LET m == VoteMessage(r, s, st, h, sig, a)
            IN  \E has \in (IF ReachesBlockCheck(m) THEN BOOLEAN ELSE {TRUE}) :
                \E anc \in (IF ReachesBlockCheck(m) /\ has THEN AncestryAnswers
                            ELSE {"descendant"}) :
                \E sendOK \in (IF ReachesSend(m) THEN BOOLEAN ELSE {TRUE}) :
                   ValidateVoteMessage(from, m, has, anc, sendOK)
    /\ UNCHANGED lvars

\* a loop that returns when validateVoteMessage returns an error
Continue_ReturnOnError ==
    /\ pc = "done"
    /\ pc' = IF ret.err # ErrNil THEN "returned" ELSE "idle"
    /\ call' = NoCall
    /\ ret' = NoRet
    /\ trackerAdds' = <<>>
    /\ sent' = <<>>
    /\ UNCHANGED <<round, setID, voters, finalised, prevotes, precommits,
                   pvEquivocations, pcEquivocations, calls>>
    /\ UNCHANGED evars
    /\ UNCHANGED tvars
    /\ UNCHANGED lvars
    /\ UNCHANGED cvars
    /\ UNCHANGED kvars
    /\ UNCHANGED rvars
    /\ UNCHANGED hvars

\* the loop of receiveVoteMessages logs the result and goes back to the select
Continue ==
    /\ pc = "done"
    /\ pc' = "idle"
    /\ call' = NoCall
    /\ ret' = NoRet
    /\ trackerAdds' = <<>>
    /\ sent' = <<>>
    /\ UNCHANGED <<round, setID, voters, finalised, prevotes, precommits,
                   pvEquivocations, pcEquivocations, calls>>
    /\ UNCHANGED evars
    /\ UNCHANGED tvars
    /\ UNCHANGED lvars
    /\ UNCHANGED cvars
    /\ UNCHANGED kvars
    /\ UNCHANGED rvars
    /\ UNCHANGED hvars

\* a round transition that does not wait for roundLock
InitiateRound_WithoutLock ==
    /\ pc \in {"idle", "locked"}
    /\ round < MaxRound
    /\ finalised' = Store(finalised, round, FinalisedIn(round))
    /\ round' = UAdd(round, 1)
    /\ prevotes' = EmptyMap
    /\ precommits' = EmptyMap
    /\ pvEquivocations' = EmptyMap
    /\ pcEquivocations' = EmptyMap
    /\ UNCHANGED <<setID, voters, pc, call, ret, trackerAdds, sent, calls>>
    /\ UNCHANGED evars
    /\ UNCHANGED tvars
    /\ UNCHANGED lvars
    /\ UNCHANGED cvars
    /\ UNCHANGED kvars
    /\ UNCHANGED rvars
    /\ UNCHANGED hvars

\* the round is finalised on block h and the service moves to the next round
\* (under roundLock: never while a vote is being validated)
InitiateRound ==
    /\ pc = "idle"
    /\ round < MaxRound
    /\ finalised' = Store(finalised, round, FinalisedIn(round))
    /\ round' = UAdd(round, 1)
    /\ prevotes' = EmptyMap
    /\ precommits' = EmptyMap
    /\ pvEquivocations' = EmptyMap
    /\ pcEquivocations' = EmptyMap
    /\ UNCHANGED <<setID, voters, pc, call, ret, trackerAdds, sent, calls>>
    /\ UNCHANGED evars
    /\ UNCHANGED tvars
    /\ UNCHANGED lvars
    /\ UNCHANGED cvars
    /\ UNCHANGED kvars
    /\ UNCHANGED rvars
    /\ UNCHANGED hvars

GNext ==
    \/ ReceiveVoteMessage
    \/ Continue
    \/ InitiateRound

-----------------------------------------------------------------------------
(* receiveVoteMessages: the loop over the in channel *)

\* what the network sends on s.in: a nil *networkVoteMessage, one without a VoteMessage,
\* a prevote of voter a1 for b1 in round 0, the same with the signature of a2, and a
\* precommit of a1 for b2
PrevoteOfA1 ==
    VoteMessage(0, 1, "prevote", "b1",
                Sign("a1", FullVote("prevote", NewVote("b1", NumberOf("b1")), 0, 1)), "a1")
PrecommitOfA1 ==
    VoteMessage(0, 1, "precommit", "b2",
                Sign("a1", FullVote("precommit", NewVote("b2", NumberOf("b2")), 0, 1)), "a1")
BadlySignedPrevote ==
    VoteMessage(0, 1, "prevote", "b1",
                Sign("a2", FullVote("prevote", NewVote("b1", NumberOf("b1")), 0, 1)), "a1")

InboundMessages ==
    { [isNil |-> TRUE, msgIsNil |-> TRUE, from |-> "p1", msg |-> PrevoteOfA1],
      [isNil |-> FALSE, msgIsNil |-> TRUE, from |-> "p1", msg |-> PrevoteOfA1],
      [isNil |-> FALSE, msgIsNil |-> FALSE, from |-> "p1", msg |-> PrevoteOfA1],
      [isNil |-> FALSE, msgIsNil |-> FALSE, from |-> "p2", msg |-> BadlySignedPrevote],
      [isNil |-> FALSE, msgIsNil |-> FALSE, from |-> "p2", msg |-> PrecommitOfA1] }

\* the network sends a message on s.in
SendOnIn(msg) ==
    /\ ~inClosed
    /\ reads + Len(inq) < MaxReads
    /\ inq' = Append(inq, msg)
    /\ UNCHANGED <<inClosed, ctxDone, reads>>
    /\ UNCHANGED gvars
    /\ UNCHANGED evars
    /\ UNCHANGED tvars
    /\ UNCHANGED cvars
    /\ UNCHANGED kvars
    /\ UNCHANGED rvars
    /\ UNCHANGED hvars

\* s.in is closed
CloseIn ==
    /\ ~inClosed
    /\ inClosed' = TRUE
    /\ UNCHANGED <<inq, ctxDone, reads>>
    /\ UNCHANGED gvars
    /\ UNCHANGED evars
    /\ UNCHANGED tvars
    /\ UNCHANGED cvars
    /\ UNCHANGED kvars
    /\ UNCHANGED rvars
    /\ UNCHANGED hvars

\* ctx is cancelled
CancelContext ==
    /\ ~ctxDone
    /\ ctxDone' = TRUE
    /\ UNCHANGED <<inq, inClosed, reads>>
    /\ UNCHANGED gvars
    /\ UNCHANGED evars
    /\ UNCHANGED tvars
    /\ UNCHANGED cvars
    /\ UNCHANGED kvars
    /\ UNCHANGED rvars
    /\ UNCHANGED hvars

\* case msg, ok := <-s.in with a message: a nil message is skipped, any other is handed
\* to validateVoteMessage
SelectReceive ==
    /\ pc = "idle"
    /\ inq # <<>>
    /\ inq' = Tail(inq)
    /\ reads' = reads + 1
    /\ UNCHANGED <<inClosed, ctxDone>>
    /\ LET msg == Head(inq)
       IN  IF msg.isNil \/ msg.msgIsNil
           THEN /\ UNCHANGED gvars
                /\ UNCHANGED evars
                /\ UNCHANGED tvars
                /\ UNCHANGED cvars
                /\ UNCHANGED kvars
                /\ UNCHANGED rvars
                /\ UNCHANGED hvars
           ELSE \E has \in (IF ReachesBlockCheck(msg.msg) THEN BOOLEAN ELSE {TRUE}) :
                \E anc \in (IF ReachesBlockCheck(msg.msg) /\ has THEN AncestryAnswers
                            ELSE {"descendant"}) :
                \E sendOK \in (IF ReachesSend(msg.msg) THEN BOOLEAN ELSE {TRUE}) :
                   ValidateVoteMessage(msg.from, msg.msg, has, anc, sendOK)

\* case msg, ok := <-s.in on the closed and empty channel: !ok, return
SelectClosed ==
    /\ pc = "idle"
    /\ inq = <<>>
    /\ inClosed
    /\ pc' = "returned"
    /\ UNCHANGED <<round, setID, voters, finalised, prevotes, precommits,
                   pvEquivocations, pcEquivocations, call, ret, trackerAdds, sent, calls>>
    /\ UNCHANGED evars
    /\ UNCHANGED tvars
    /\ UNCHANGED lvars
    /\ UNCHANGED cvars
    /\ UNCHANGED kvars
    /\ UNCHANGED rvars
    /\ UNCHANGED hvars

\* case <-ctx.Done(): return
SelectDone ==
    /\ pc = "idle"
    /\ ctxDone
    /\ pc' = "returned"
    /\ UNCHANGED <<round, setID, voters, finalised, prevotes, precommits,
                   pvEquivocations, pcEquivocations, call, ret, trackerAdds, sent, calls>>
    /\ UNCHANGED evars
    /\ UNCHANGED tvars
    /\ UNCHANGED lvars
    /\ UNCHANGED cvars
    /\ UNCHANGED kvars
    /\ UNCHANGED rvars
    /\ UNCHANGED hvars

ReceiveLoopNext ==
    \/ \E msg \in InboundMessages : SendOnIn(msg)
    \/ CloseIn
    \/ CancelContext
    \/ SelectReceive
    \/ Continue
    \/ SelectClosed
    \/ SelectDone

-----------------------------------------------------------------------------
(* validateVoteMessage under roundLock, in two steps: the checks, then the store *)

\* the checks of validateVoteMessage up to validateVote have let the message through
PassesChecks(m, has, anc) ==
    /\ ReachesBlockCheck(m)
    /\ validateVote(NewVote(m.message.blockHash, m.message.number), has, anc) = ErrNil

\* s.roundLock.Lock() and the checks against s.state: the call holds roundLock and knows
\* whether the message has passed, and what it returns if it has not
LockAndCheck(from, m, has, anc, sendOK) ==
    /\ pc' = "locked"
    /\ call' = [from |-> from, m |-> m, has |-> has, anc |-> anc, sendOK |-> sendOK,
                passed |-> PassesChecks(m, has, anc),
                early |-> LET out == validateVoteMessage(from, m, has, anc, sendOK)
                          IN  [vote |-> out.vote, err |-> out.err,
                               adds |-> out.adds, sends |-> out.sends]]
    /\ UNCHANGED <<round, setID, voters, finalised, prevotes, precommits,
                   pvEquivocations, pcEquivocations, ret, trackerAdds, sent, calls>>
    /\ UNCHANGED evars
    /\ UNCHANGED tvars
    /\ UNCHANGED lvars
    /\ UNCHANGED cvars
    /\ UNCHANGED kvars
    /\ UNCHANGED rvars
    /\ UNCHANGED hvars

\* what the network hands to validateVoteMessage
ReceiveAndLock ==
    /\ pc = "idle"
    /\ calls < MaxCalls
    /\ \E from \in Peers, r \in MsgRounds, s \in MsgSetIDs, st \in Stages,
          h \in Hashes, a \in Keys :
         \E sig \in Signatures(a, st, h, r, s) :
            LET m == VoteMessage(r, s, st, h, sig, a)
            IN  \E has \in (IF ReachesBlockCheck(m) THEN BOOLEAN ELSE {TRUE}) :
                \E anc \in (IF ReachesBlockCheck(m) /\ has THEN AncestryAnswers
                            ELSE {"descendant"}) :
                \E sendOK \in (IF ReachesSend(m) THEN BOOLEAN ELSE {TRUE}) :
                   LockAndCheck(from, m, has, anc, sendOK)

\* the rest of the call and the deferred s.roundLock.Unlock(): a message that has passed
\* the checks goes through checkForEquivocation and is stored
StoreAndUnlock ==
    /\ pc = "locked"
    /\ pc' = "done"
    /\ calls' = calls + 1
    /\ IF call.passed
       THEN LET out == storeCheckedVote(call.m)
            IN  /\ prevotes' = out.prevotes
                /\ precommits' = out.precommits
                /\ pvEquivocations' = out.pvEq
                /\ pcEquivocations' = out.pcEq
                /\ ret' = [vote |-> out.vote, err |-> out.err]
                /\ trackerAdds' = <<>>
                /\ sent' = <<>>
       ELSE /\ ret' = [vote |-> call.early.vote, err |-> call.early.err]
            /\ trackerAdds' = call.early.adds
            /\ sent' = call.early.sends
            /\ UNCHANGED <<prevotes, precommits, pvEquivocations, pcEquivocations>>
    /\ UNCHANGED <<round, setID, voters, finalised, call>>
    /\ UNCHANGED evars
    /\ UNCHANGED tvars
    /\ UNCHANGED lvars
    /\ UNCHANGED cvars
    /\ UNCHANGED kvars
    /\ UNCHANGED rvars
    /\ UNCHANGED hvars

\* the network hands over a vote of the current round and set, validly signed by a
\* voter other than the service itself, for a block the block state may know
ReceiveCurrentVote ==
    /\ pc = "idle"
    /\ calls < MaxVotes
    /\ \E from \in Peers, st \in Stages, h \in Hashes, a \in voters \ {OwnKey},
          has \in BOOLEAN :
         LET fv == FullVote(st, NewVote(h, NumberOf(h)), round, setID)
             m == VoteMessage(round, setID, st, h, Sign(a, fv), a)
         IN  ValidateVoteMessage(from, m, has, "descendant", TRUE)
    /\ UNCHANGED lvars

CurrentVotesNext ==
    \/ ReceiveCurrentVote
    \/ Continue
    \/ InitiateRound

RoundLockNext ==
    \/ ReceiveAndLock
    \/ StoreAndUnlock
    \/ Continue
    \/ InitiateRound

-----------------------------------------------------------------------------
(* BABE epoch state: headers and their digests *)

PreDigestKinds ==
    {"BabePrimaryPreDigest", "BabeSecondaryVRFPreDigest", "BabeSecondaryPlainPreDigest"}

Slots == 0 .. MaxSlot

\* the bytes of a pre-runtime digest: an encoded BABE pre-digest, or bytes that are none
PreDigestBytes ==
    {[kind |-> k, slot |-> sl] : k \in PreDigestKinds, sl \in Slots}
        \cup {[kind |-> "undecodable", slot |-> 0]}

DigestItems ==
    {[type |-> "PreRuntimeDigest", data |-> d] : d \in PreDigestBytes}
        \cup {[type |-> "SealDigest", data |-> [kind |-> "seal", slot |-> 0]]}

\* the digests of the headers handed to the epoch state: up to two items
Digests ==
    {<<>>} \cup {<<a>> : a \in DigestItems} \cup {<<a, b>> : a \in DigestItems, b \in DigestItems}

NilHeader == [isNil |-> TRUE, digest |-> <<>>]
Headers == {NilHeader} \cup {[isNil |-> FALSE, digest |-> d] : d \in Digests}

\* headers of blocks of the chain: the genesis header, whose digest is empty, and the
\* headers of BABE blocks, a pre-runtime digest followed by the seal
ChainHeaders ==
    {[isNil |-> FALSE, digest |-> <<>>]}
        \cup {[isNil |-> FALSE,
               digest |-> << [type |-> "PreRuntimeDigest", data |-> [kind |-> k, slot |-> sl]],
                             [type |-> "SealDigest", data |-> [kind |-> "seal", slot |-> 0]] >>] :
              k \in PreDigestKinds, sl \in Slots}

DecodeBabePreDigest(data) ==
    IF data.kind \in PreDigestKinds
    THEN [digest |-> data, err |-> ErrNil]
    ELSE [digest |-> data, err |-> "errDecode"]

\* lines 221-225, without the comparison with firstSlot: the unsigned subtraction wraps
EpochOfSlot_NoFirstSlotGuard(slotNumber) ==
    USub(slotNumber, firstSlot) \div epochLength

\* the epoch of a slot number: 0 before the first slot of the network
EpochOfSlot(slotNumber) ==
    IF slotNumber < firstSlot
    THEN 0
    ELSE USub(slotNumber, firstSlot) \div epochLength

RECURSIVE EpochFromDigest(_, _)
\* the loop over header.Digest.Types, from item i on
EpochFromDigest(items, i) ==
    IF i > Len(items)
    THEN [epoch |-> 0, err |-> "header does not contain pre-runtime digest"]
    ELSE IF items[i].type # "PreRuntimeDigest"
    THEN EpochFromDigest(items, i + 1)
    ELSE LET dec == DecodeBabePreDigest(items[i].data)
         IN  IF dec.err # ErrNil
             THEN [epoch |-> 0, err |-> "failed to decode babe header"]
             ELSE [epoch |-> EpochOfSlot(dec.digest.slot), err |-> ErrNil]

GetEpochForBlock(header) ==
    IF header.isNil
    THEN [epoch |-> 0, err |-> "header is nil"]
    ELSE EpochFromDigest(header.digest, 1)

-----------------------------------------------------------------------------
(* BABE epoch state: epoch data *)

\* the next-epoch data a block announces in its consensus digest
NextEpochDatas ==
    {[form |-> "NextEpochData", authorities |-> "A1", randomness |-> "r1"],
     [form |-> "NextEpochData", authorities |-> "A2", randomness |-> "r2"]}

ToEpochData(d) ==
    [form |-> "EpochData", authorities |-> d.authorities, randomness |-> d.randomness]

ToEpochDataRaw(d) ==
    [form |-> "EpochDataRaw", authorities |-> d.authorities, randomness |-> d.randomness]

GenesisEpochData == [form |-> "EpochData", authorities |-> "A0", randomness |-> "r0"]

\* the next-config data a block announces in its consensus digest
NextConfigDatas ==
    {[form |-> "NextConfigData", c |-> "c1", secondarySlots |-> 1],
     [form |-> "NextConfigData", c |-> "c2", secondarySlots |-> 2]}

\* NextConfigData.ToConfigData
ToConfigData(d) == [form |-> "ConfigData", c |-> d.c, secondarySlots |-> d.secondarySlots]

\* scale.Marshal of a ConfigData
EncodeConfigData(d) ==
    [form |-> "ConfigDataBytes", c |-> d.c, secondarySlots |-> d.secondarySlots]

GenesisConfigData == [form |-> "ConfigData", c |-> "c0", secondarySlots |-> 0]

\* SetConfigData: the table after the write of the encoding under configDataKey(epoch)
SetConfigData(table, epoch, info) == Store(table, epoch, EncodeConfigData(info))

getConfigDataFromDatabase(epoch) ==
    IF Has(configData, epoch)
    THEN [found |-> TRUE, err |-> ErrNil]
    ELSE [found |-> FALSE, err |-> "ErrKeyNotFound"]

\* SetEpochData: the table after the write of the encoded raw form under epochDataKey(epoch)
SetEpochData(table, epoch, info) == Store(table, epoch, ToEpochDataRaw(info))

getEpochDataFromDatabase(epoch) ==
    IF Has(epochData, epoch)
    THEN [found |-> TRUE, err |-> ErrNil]
    ELSE [found |-> FALSE, err |-> "ErrKeyNotFound"]

HasHeaderInDatabase(hash) == hash \in headerDB

\* findFinalizedHeaderForEpoch without the look into the header database
findFinalizedHeaderForEpoch_AnyHash(nextEpochMap, epoch) ==
    IF ~Has(nextEpochMap, epoch)
    THEN {[hash |-> "nil", err |-> "ErrEpochNotInMemory"]}
    ELSE {[hash |-> hash, err |-> ErrNil] : hash \in DOMAIN nextEpochMap[epoch]}

\* the results the loop over the hashes of the epoch can return: Go ranges over a
\* map in an unspecified order and the loop returns at the first persisted hash
findFinalizedHeaderForEpoch(nextEpochMap, epoch) ==
    IF ~Has(nextEpochMap, epoch)
    THEN {[hash |-> "nil", err |-> "ErrEpochNotInMemory"]}
    ELSE LET hashes == nextEpochMap[epoch]
             persisted == {hash \in DOMAIN hashes : HasHeaderInDatabase(hash)}
         IN  IF persisted = {}
             THEN {[hash |-> "nil", err |-> "errHashNotPersisted"]}
             ELSE {[hash |-> hash, err |-> ErrNil] : hash \in persisted}

\* the purge of the map without the comparison of the epochs
RemovePreviousEpochs_All(nextEpochMap, nextEpoch) == EmptyMap

\* the map without the epochs up to nextEpoch
RemovePreviousEpochs(nextEpochMap, nextEpoch) ==
    [e \in {k \in DOMAIN nextEpochMap : k > nextEpoch} |-> nextEpochMap[e]]

-----------------------------------------------------------------------------
(* The actions of the epoch state *)

\* NewEpochStateFromGenesis with a genesis configuration of the given epoch length,
\* over a block state that holds the genesis block only
NewEpochStateFromGenesis(cfgEpochLength) ==
    /\ cfgEpochLength # 0
    /\ firstSlot = 1
    /\ epochLength = cfgEpochLength
    /\ epochData = SetEpochData(EmptyMap, 0, GenesisEpochData)
    /\ nextEpochData = EmptyMap
    /\ headerDB = {}
    /\ highestFinalisedNumber = 0
    /\ currentEpoch = 0
    /\ configData = SetConfigData(EmptyMap, 0, GenesisConfigData)
    /\ latestConfigEpoch = 0
    /\ nextConfigData = EmptyMap
    /\ ecall = [op |-> "NewEpochStateFromGenesis"]
    /\ eret = [err |-> ErrNil]
    /\ reading = [pc |-> "idle"]

EInit == \E cfgEpochLength \in 1 .. MaxEpochLength : NewEpochStateFromGenesis(cfgEpochLength)

\* SetFirstSlot without the look at the highest finalised header
SetFirstSlot_NoFinalisedCheck(slot) ==
    /\ ecall' = [op |-> "SetFirstSlot", slot |-> slot]
    /\ eret' = [err |-> ErrNil]
    /\ firstSlot' = slot
    /\ UNCHANGED <<epochLength, epochData, nextEpochData, headerDB, highestFinalisedNumber>>
    /\ UNCHANGED currentEpoch
    /\ UNCHANGED gvars
    /\ UNCHANGED tvars
    /\ UNCHANGED lvars
    /\ UNCHANGED cvars
    /\ UNCHANGED kvars
    /\ UNCHANGED rvars
    /\ UNCHANGED hvars

SetFirstSlot(slot) ==
    /\ ecall' = [op |-> "SetFirstSlot", slot |-> slot]
    /\ IF highestFinalisedNumber >= 1
       THEN /\ eret' = [err |-> "first slot has already been set"]
            /\ UNCHANGED firstSlot
       ELSE /\ eret' = [err |-> ErrNil]
            /\ firstSlot' = slot
    /\ UNCHANGED <<epochLength, epochData, nextEpochData, headerDB, highestFinalisedNumber>>
    /\ UNCHANGED currentEpoch
    /\ UNCHANGED gvars
    /\ UNCHANGED tvars
    /\ UNCHANGED lvars
    /\ UNCHANGED cvars
    /\ UNCHANGED kvars
    /\ UNCHANGED rvars
    /\ UNCHANGED hvars

\* a caller asks for the epoch of a header
CallGetEpochForBlock(header) ==
    /\ ecall' = [op |-> "GetEpochForBlock", header |-> header]
    /\ eret' = GetEpochForBlock(header)
    /\ UNCHANGED <<epochLength, firstSlot, epochData, nextEpochData, headerDB,
                   highestFinalisedNumber>>
    /\ UNCHANGED currentEpoch
    /\ UNCHANGED gvars
    /\ UNCHANGED tvars
    /\ UNCHANGED lvars
    /\ UNCHANGED cvars
    /\ UNCHANGED kvars
    /\ UNCHANGED rvars
    /\ UNCHANGED hvars

StoreBABENextEpochData(epoch, hash, data) ==
    /\ ecall' = [op |-> "StoreBABENextEpochData", epoch |-> epoch, hash |-> hash, data |-> data]
    /\ eret' = [err |-> ErrNil]
    /\ nextEpochData' =
          Store(nextEpochData, epoch,
                Store(IF Has(nextEpochData, epoch) THEN nextEpochData[epoch] ELSE EmptyMap,
                      hash, data))
    /\ UNCHANGED <<epochLength, firstSlot, epochData, headerDB, highestFinalisedNumber>>
    /\ UNCHANGED currentEpoch
    /\ UNCHANGED gvars
    /\ UNCHANGED tvars
    /\ UNCHANGED lvars
    /\ UNCHANGED cvars
    /\ UNCHANGED kvars
    /\ UNCHANGED rvars
    /\ UNCHANGED hvars

\* FinalizeBABENextEpochData without the look at the persisted data of the next epoch
FinalizeBABENextEpochData_NoPersistedCheck(finalizedHeader) ==
    /\ ecall' = [op |-> "FinalizeBABENextEpochData", header |-> finalizedHeader]
    /\ LET finalizedBlockEpoch == GetEpochForBlock(finalizedHeader)
           nextEpoch == UAdd(finalizedBlockEpoch.epoch, 1)
       IN  IF finalizedBlockEpoch.err # ErrNil
           THEN /\ eret' = [err |-> "cannot get epoch for block"]
                /\ UNCHANGED <<epochData, nextEpochData>>
           ELSE \E found \in findFinalizedHeaderForEpoch(nextEpochData, nextEpoch) :
                   IF found.err # ErrNil
                   THEN /\ eret' = [err |-> found.err]
                        /\ UNCHANGED <<epochData, nextEpochData>>
                   ELSE /\ eret' = [err |-> ErrNil]
                        /\ epochData' =
                              SetEpochData(epochData, nextEpoch,
                                           ToEpochData(nextEpochData[nextEpoch][found.hash]))
                        /\ nextEpochData' = RemovePreviousEpochs(nextEpochData, nextEpoch)
    /\ UNCHANGED <<epochLength, firstSlot, headerDB, highestFinalisedNumber>>
    /\ UNCHANGED currentEpoch
    /\ UNCHANGED gvars
    /\ UNCHANGED tvars
    /\ UNCHANGED lvars
    /\ UNCHANGED cvars
    /\ UNCHANGED kvars
    /\ UNCHANGED rvars
    /\ UNCHANGED hvars

FinalizeBABENextEpochData(finalizedHeader) ==
    /\ ecall' = [op |-> "FinalizeBABENextEpochData", header |-> finalizedHeader]
    /\ LET finalizedBlockEpoch == GetEpochForBlock(finalizedHeader)
           nextEpoch == UAdd(finalizedBlockEpoch.epoch, 1)
       IN  IF finalizedBlockEpoch.err # ErrNil
           THEN /\ eret' = [err |-> "cannot get epoch for block"]
                /\ UNCHANGED <<epochData, nextEpochData>>
           ELSE IF getEpochDataFromDatabase(nextEpoch).found
           THEN /\ eret' = [err |-> ErrNil]
                /\ UNCHANGED <<epochData, nextEpochData>>
           ELSE \E found \in findFinalizedHeaderForEpoch(nextEpochData, nextEpoch) :
                   IF found.err # ErrNil
                   THEN /\ eret' = [err |-> found.err]
                        /\ UNCHANGED <<epochData, nextEpochData>>
                   ELSE /\ eret' = [err |-> ErrNil]
                        /\ epochData' =
                              SetEpochData(epochData, nextEpoch,
                                           ToEpochData(nextEpochData[nextEpoch][found.hash]))
                        /\ nextEpochData' = RemovePreviousEpochs(nextEpochData, nextEpoch)
    /\ UNCHANGED <<epochLength, firstSlot, headerDB, highestFinalisedNumber>>
    /\ UNCHANGED currentEpoch
    /\ UNCHANGED gvars
    /\ UNCHANGED tvars
    /\ UNCHANGED lvars
    /\ UNCHANGED cvars
    /\ UNCHANGED kvars
    /\ UNCHANGED rvars
    /\ UNCHANGED hvars

StoreBABENextConfigData(epoch, hash, data) ==
    /\ ecall' = [op |-> "StoreBABENextConfigData", epoch |-> epoch, hash |-> hash, data |-> data]
    /\ eret' = [err |-> ErrNil]
    /\ nextConfigData' =
          Store(nextConfigData, epoch,
                Store(IF Has(nextConfigData, epoch) THEN nextConfigData[epoch] ELSE EmptyMap,
                      hash, data))
    /\ UNCHANGED <<configData, latestConfigEpoch>>
    /\ UNCHANGED <<epochLength, firstSlot, epochData, nextEpochData, headerDB,
                   highestFinalisedNumber, currentEpoch>>
    /\ UNCHANGED gvars
    /\ UNCHANGED tvars
    /\ UNCHANGED lvars
    /\ UNCHANGED cvars
    /\ UNCHANGED rvars
    /\ UNCHANGED hvars

\* FinalizeBABENextConfigData returning the error of an epoch that is not in memory
FinalizeBABENextConfigData_NotInMemoryFails(finalizedHeader) ==
    /\ ecall' = [op |-> "FinalizeBABENextConfigData", header |-> finalizedHeader]
    /\ LET finalizedBlockEpoch == GetEpochForBlock(finalizedHeader)
           nextEpoch == UAdd(finalizedBlockEpoch.epoch, 1)
       IN  IF finalizedBlockEpoch.err # ErrNil
           THEN /\ eret' = [err |-> "cannot get epoch for block"]
                /\ UNCHANGED <<configData, latestConfigEpoch, nextConfigData>>
           ELSE IF getConfigDataFromDatabase(nextEpoch).found
           THEN /\ eret' = [err |-> ErrNil]
                /\ UNCHANGED <<configData, latestConfigEpoch, nextConfigData>>
           ELSE \E found \in findFinalizedHeaderForEpoch(nextConfigData, nextEpoch) :
                   IF found.err # ErrNil
                   THEN /\ eret' = [err |-> found.err]
                        /\ UNCHANGED <<configData, latestConfigEpoch, nextConfigData>>
                   ELSE /\ eret' = [err |-> ErrNil]
                        /\ latestConfigEpoch' = nextEpoch
                        /\ configData' =
                              SetConfigData(configData, nextEpoch,
                                            ToConfigData(nextConfigData[nextEpoch][found.hash]))
                        /\ nextConfigData' = RemovePreviousEpochs(nextConfigData, nextEpoch)
    /\ UNCHANGED <<epochLength, firstSlot, epochData, nextEpochData, headerDB,
                   highestFinalisedNumber, currentEpoch>>
    /\ UNCHANGED gvars
    /\ UNCHANGED tvars
    /\ UNCHANGED lvars
    /\ UNCHANGED cvars
    /\ UNCHANGED rvars
    /\ UNCHANGED hvars

FinalizeBABENextConfigData(finalizedHeader) ==
    /\ ecall' = [op |-> "FinalizeBABENextConfigData", header |-> finalizedHeader]
    /\ LET finalizedBlockEpoch == GetEpochForBlock(finalizedHeader)
           nextEpoch == UAdd(finalizedBlockEpoch.epoch, 1)
       IN  IF finalizedBlockEpoch.err # ErrNil
           THEN /\ eret' = [err |-> "cannot get epoch for block"]
                /\ UNCHANGED <<configData, latestConfigEpoch, nextConfigData>>
           ELSE IF getConfigDataFromDatabase(nextEpoch).found
           THEN /\ eret' = [err |-> ErrNil]
                /\ UNCHANGED <<configData, latestConfigEpoch, nextConfigData>>
           ELSE \E found \in findFinalizedHeaderForEpoch(nextConfigData, nextEpoch) :
                   IF found.err = "ErrEpochNotInMemory"
                   THEN \* not every epoch has config data
                        /\ eret' = [err |-> ErrNil]
                        /\ UNCHANGED <<configData, latestConfigEpoch, nextConfigData>>
                   ELSE IF found.err # ErrNil
                   THEN /\ eret' = [err |-> found.err]
                        /\ UNCHANGED <<configData, latestConfigEpoch, nextConfigData>>
                   ELSE /\ eret' = [err |-> ErrNil]
                        /\ latestConfigEpoch' = nextEpoch
                        /\ configData' =
                              SetConfigData(configData, nextEpoch,
                                            ToConfigData(nextConfigData[nextEpoch][found.hash]))
                        /\ nextConfigData' = RemovePreviousEpochs(nextConfigData, nextEpoch)
    /\ UNCHANGED <<epochLength, firstSlot, epochData, nextEpochData, headerDB,
                   highestFinalisedNumber, currentEpoch>>
    /\ UNCHANGED gvars
    /\ UNCHANGED tvars
    /\ UNCHANGED lvars
    /\ UNCHANGED cvars
    /\ UNCHANGED rvars
    /\ UNCHANGED hvars

\* block state: the header of a block is written to the database
SetHeader(hash) ==
    /\ hash \notin headerDB
    /\ headerDB' = headerDB \cup {hash}
    /\ ecall' = [op |-> "SetHeader", hash |-> hash]
    /\ eret' = [err |-> ErrNil]
    /\ UNCHANGED <<epochLength, firstSlot, epochData, nextEpochData, highestFinalisedNumber>>
    /\ UNCHANGED currentEpoch
    /\ UNCHANGED gvars
    /\ UNCHANGED tvars
    /\ UNCHANGED lvars
    /\ UNCHANGED cvars
    /\ UNCHANGED kvars
    /\ UNCHANGED rvars
    /\ UNCHANGED hvars

\* block state: the next block is finalised
SetFinalisedHash ==
    /\ highestFinalisedNumber < MaxFinalisedNumber
    /\ highestFinalisedNumber' = highestFinalisedNumber + 1
    /\ ecall' = [op |-> "SetFinalisedHash"]
    /\ eret' = [err |-> ErrNil]
    /\ UNCHANGED <<epochLength, firstSlot, epochData, nextEpochData, headerDB>>
    /\ UNCHANGED currentEpoch
    /\ UNCHANGED gvars
    /\ UNCHANGED tvars
    /\ UNCHANGED lvars
    /\ UNCHANGED cvars
    /\ UNCHANGED kvars
    /\ UNCHANGED rvars
    /\ UNCHANGED hvars

\* the first slot of the network and the epoch of a block
SlotNext ==
    \/ \E slot \in Slots : SetFirstSlot(slot)
    \/ SetFinalisedHash
    \/ \E header \in Headers : CallGetEpochForBlock(header)

\* announcement and finalisation of next-epoch data
EpochNext ==
    \/ \E epoch \in 1 .. MaxEpoch, hash \in Hashes, data \in NextEpochDatas :
          StoreBABENextEpochData(epoch, hash, data)
    \/ \E hash \in Hashes : SetHeader(hash)
    \/ \E header \in ChainHeaders : FinalizeBABENextEpochData(header)

\* the announcements held in memory, as pairs of epoch and block hash
Announced ==
    UNION {{<<e, hash>> : hash \in DOMAIN nextEpochData[e]} : e \in DOMAIN nextEpochData}

\* the headers of finalised blocks: the genesis header and the headers of blocks with
\* a primary pre-digest, one for each slot
FinalisedHeaders ==
    {h \in ChainHeaders :
        h.digest = <<>> \/ h.digest[1].data.kind = "BabePrimaryPreDigest"}

\* the config announcements held in memory, as pairs of epoch and block hash
AnnouncedConfig ==
    UNION {{<<e, hash>> : hash \in DOMAIN nextConfigData[e]} : e \in DOMAIN nextConfigData}

\* config announcements, persisted headers and config finalisations, in any order
FinalizeConfigNext ==
    \/ /\ Cardinality(AnnouncedConfig) < MaxAnnounced
       /\ \E epoch \in 1 .. MaxEpoch, hash \in Hashes, data \in NextConfigDatas :
             StoreBABENextConfigData(epoch, hash, data)
    \/ \E hash \in Hashes : SetHeader(hash)
    \/ \E header \in FinalisedHeaders : FinalizeBABENextConfigData(header)

\* the data and the config that are announced where their value does not matter
SomeNextEpochData == CHOOSE d \in NextEpochDatas : TRUE
SomeNextConfigData == CHOOSE d \in NextConfigDatas : TRUE

\* the headers of the blocks of the first two slots after the genesis block
EarlyHeaders ==
    {h \in FinalisedHeaders : h.digest # <<>> /\ h.digest[1].data.slot \in {1, 2}}

\* announcements of epoch data and of config data, up to MaxAnnounced of them in
\* memory together, persisted headers and the two finalisations, in any order
FinalizeBothNext ==
    \/ /\ Cardinality(Announced) + Cardinality(AnnouncedConfig) < MaxAnnounced
       /\ \E epoch \in 1 .. MaxEpoch, hash \in Hashes :
             StoreBABENextEpochData(epoch, hash, SomeNextEpochData)
    \/ /\ Cardinality(Announced) + Cardinality(AnnouncedConfig) < MaxAnnounced
       /\ \E epoch \in 1 .. MaxEpoch, hash \in Hashes :
             StoreBABENextConfigData(epoch, hash, SomeNextConfigData)
    \/ \E hash \in Hashes : SetHeader(hash)
    \/ \E header \in EarlyHeaders : FinalizeBABENextEpochData(header)
    \/ \E header \in EarlyHeaders : FinalizeBABENextConfigData(header)

\* announcements, persisted headers and finalisations, in any order
FinalizeNext ==
    \/ /\ Cardinality(Announced) < MaxAnnounced
       /\ \E epoch \in 1 .. MaxEpoch, hash \in Hashes, data \in NextEpochDatas :
             StoreBABENextEpochData(epoch, hash, data)
    \/ \E hash \in Hashes : SetHeader(hash)
    \/ \E header \in FinalisedHeaders : FinalizeBABENextEpochData(header)

-----------------------------------------------------------------------------
(* BABE epoch state: reading epoch data *)

\* the nil *types.EpochData
NoEpochData == [form |-> "nil", authorities |-> "nil", randomness |-> "nil"]

\* EpochDataRaw.ToEpochData
RawToEpochData(raw) ==
    [form |-> "EpochData", authorities |-> raw.authorities, randomness |-> raw.randomness]

\* what blockState.IsDescendantOf(hash, header.Hash()) answers for an announcing hash
DescendantAnswers == {"descendant", "notDescendant", "error"}

\* getEpochDataFromMemory without the ancestry query: any entry of the epoch
getEpochDataFromMemory_AnyEntry(epoch, anc) ==
    IF ~Has(nextEpochData, epoch)
    THEN {[data |-> NoEpochData, err |-> "ErrEpochNotInMemory"]}
    ELSE {[data |-> ToEpochData(nextEpochData[epoch][hash]), err |-> ErrNil] :
             hash \in DOMAIN nextEpochData[epoch]}

\* the results the loop over the hashes of the epoch can return: Go ranges over the map
\* in an unspecified order and the loop returns at the first hash whose ancestry query
\* fails or answers true
getEpochDataFromMemory(epoch, anc) ==
    IF ~Has(nextEpochData, epoch)
    THEN {[data |-> NoEpochData, err |-> "ErrEpochNotInMemory"]}
    ELSE LET atEpoch == nextEpochData[epoch]
             stops == {hash \in DOMAIN atEpoch : anc[hash] # "notDescendant"}
         IN  IF stops = {}
             THEN {[data |-> NoEpochData, err |-> "errHashNotInMemory"]}
             ELSE {IF anc[hash] = "error"
                   THEN [data |-> NoEpochData, err |-> "cannot verify the ancestry"]
                   ELSE [data |-> ToEpochData(atEpoch[hash]), err |-> ErrNil] : hash \in stops}

GetEpochData(epoch, header, anc) ==
    IF getEpochDataFromDatabase(epoch).found
    THEN {[data |-> RawToEpochData(epochData[epoch]), err |-> ErrNil]}
    ELSE IF header.isNil
    THEN {[data |-> NoEpochData, err |-> ErrNil]}
    ELSE getEpochDataFromMemory(epoch, anc)

\* the ancestry query is made for the hashes of the epoch, when the call gets that far
QueriedHashes(epoch, header) ==
    IF Has(epochData, epoch) \/ header.isNil \/ ~Has(nextEpochData, epoch)
    THEN {}
    ELSE DOMAIN nextEpochData[epoch]

AncestryOracles(epoch, header) ==
    {anc \in [Hashes -> DescendantAnswers] :
        \A hash \in Hashes \ QueriedHashes(epoch, header) : anc[hash] = "notDescendant"}

\* a caller asks for the data of an epoch, as seen from a header
CallGetEpochData(epoch, header, anc) ==
    /\ ecall' = [op |-> "GetEpochData", epoch |-> epoch, header |-> header, anc |-> anc]
    /\ eret' \in GetEpochData(epoch, header, anc)
    /\ UNCHANGED <<epochLength, firstSlot, epochData, nextEpochData, headerDB,
                   highestFinalisedNumber, currentEpoch>>
    /\ UNCHANGED gvars
    /\ UNCHANGED tvars
    /\ UNCHANGED lvars
    /\ UNCHANGED cvars
    /\ UNCHANGED kvars
    /\ UNCHANGED rvars
    /\ UNCHANGED hvars

\* a caller persists the data of an epoch
CallSetEpochData(epoch, info) ==
    /\ ecall' = [op |-> "SetEpochData", epoch |-> epoch, info |-> info]
    /\ eret' = [err |-> ErrNil]
    /\ epochData' = SetEpochData(epochData, epoch, info)
    /\ UNCHANGED <<epochLength, firstSlot, nextEpochData, headerDB,
                   highestFinalisedNumber, currentEpoch>>
    /\ UNCHANGED gvars
    /\ UNCHANGED tvars
    /\ UNCHANGED lvars
    /\ UNCHANGED cvars
    /\ UNCHANGED kvars
    /\ UNCHANGED rvars
    /\ UNCHANGED hvars

\* the headers a caller reads epoch data from: none, or the header of a block
ReadHeaders == {NilHeader, [isNil |-> FALSE, digest |-> <<>>]}

\* announcement, persistence and reading of epoch data. GetEpochData changes nothing in
\* the epoch state: a read that follows a read reaches nothing a read after the last
\* write does not reach.
EpochDataNext ==
    \/ \E epoch \in 1 .. MaxEpoch, hash \in Hashes, data \in NextEpochDatas :
          StoreBABENextEpochData(epoch, hash, data)
    \/ \E epoch \in 1 .. MaxEpoch, data \in NextEpochDatas :
          CallSetEpochData(epoch, ToEpochData(data))
    \/ /\ ecall.op # "GetEpochData"
       /\ \E epoch \in 0 .. (MaxEpoch + 1), header \in ReadHeaders :
             \E anc \in AncestryOracles(epoch, header) : CallGetEpochData(epoch, header, anc)

-----------------------------------------------------------------------------
(* BABE epoch state: a reader of epoch data concurrent with the finalisation *)

\* no call of GetEpochData is between its two lookups
NoRead == [pc |-> "idle"]

\* the memory lookup of the epoch, made now, finds an entry announced by an ancestor
HeldUnderAncestor(epoch, anc) ==
    /\ Has(nextEpochData, epoch)
    /\ \E hash \in DOMAIN nextEpochData[epoch] : anc[hash] = "descendant"

\* the answers of blockState.IsDescendantOf for the announcing hashes, during one call
Ancestries == [Hashes -> DescendantAnswers]

\* GetEpochData up to its call of getEpochDataFromMemory: the database lookup takes no
\* lock of the epoch state. The call records, for the properties, whether the memory
\* held the data under an ancestor at the time of the database lookup.
GetEpochData_Database(epoch, header, anc) ==
    /\ reading = NoRead
    /\ IF getEpochDataFromDatabase(epoch).found
       THEN /\ ecall' = [op |-> "GetEpochData", epoch |-> epoch, header |-> header,
                         anc |-> anc]
            /\ eret' = [data |-> RawToEpochData(epochData[epoch]), err |-> ErrNil]
            /\ UNCHANGED reading
       ELSE IF header.isNil
       THEN /\ ecall' = [op |-> "GetEpochData", epoch |-> epoch, header |-> header,
                         anc |-> anc]
            /\ eret' = [data |-> NoEpochData, err |-> ErrNil]
            /\ UNCHANGED reading
       ELSE /\ reading' = [pc |-> "memory", epoch |-> epoch, header |-> header,
                           anc |-> anc, held |-> HeldUnderAncestor(epoch, anc)]
            /\ UNCHANGED <<ecall, eret>>
    /\ UNCHANGED <<epochLength, firstSlot, epochData, nextEpochData, headerDB,
                   highestFinalisedNumber, currentEpoch>>
    /\ UNCHANGED gvars
    /\ UNCHANGED tvars
    /\ UNCHANGED lvars
    /\ UNCHANGED cvars
    /\ UNCHANGED kvars
    /\ UNCHANGED hvars

\* the rest of GetEpochData: getEpochDataFromMemory, which holds the read lock of
\* nextEpochData from its first to its last statement, and the return
GetEpochData_Memory ==
    /\ reading.pc = "memory"
    /\ ecall' = [op |-> "GetEpochData", epoch |-> reading.epoch, header |-> reading.header,
                 anc |-> reading.anc]
    /\ eret' \in getEpochDataFromMemory(reading.epoch, reading.anc)
    /\ reading' = NoRead
    /\ UNCHANGED <<epochLength, firstSlot, epochData, nextEpochData, headerDB,
                   highestFinalisedNumber, currentEpoch>>
    /\ UNCHANGED gvars
    /\ UNCHANGED tvars
    /\ UNCHANGED lvars
    /\ UNCHANGED cvars
    /\ UNCHANGED kvars
    /\ UNCHANGED hvars

\* the finalised headers of the first epoch, and the genesis header
EpochZeroHeaders ==
    {h \in FinalisedHeaders :
        GetEpochForBlock(h).err # ErrNil \/ GetEpochForBlock(h).epoch = 0}

\* announcements, persisted headers and finalisations of the blocks of the first epoch,
\* with one call of GetEpochData at a time whose two lookups the writers interleave with
ConcurrentReadNext ==
    \/ /\ Cardinality(Announced) < MaxAnnounced
       /\ \E epoch \in 1 .. MaxEpoch, hash \in Hashes :
             StoreBABENextEpochData(epoch, hash, SomeNextEpochData)
    \/ \E hash \in Hashes : SetHeader(hash)
    \/ \E header \in EpochZeroHeaders : FinalizeBABENextEpochData(header)
    \/ /\ reading = NoRead
       /\ ecall.op # "GetEpochData"
       /\ \E epoch \in 1 .. MaxEpoch, header \in ReadHeaders, anc \in Ancestries :
             GetEpochData_Database(epoch, header, anc)
    \/ GetEpochData_Memory

\* between the two lookups of a call that started with the data held in memory, the
\* data is at every instant persisted or held in memory under an ancestor
DataAvailableDuringRead ==
    (reading.pc = "memory" /\ reading.held)
       => \/ Has(epochData, reading.epoch)
          \/ HeldUnderAncestor(reading.epoch, reading.anc)

-----------------------------------------------------------------------------
(* BABE epoch state: the current epoch and the start slot of an epoch *)

\* uint64 arithmetic of s.epochLength*epoch + firstSlot
GetStartSlotForEpoch(epoch) == (epochLength * epoch + firstSlot) % Modulus

SetCurrentEpoch(epoch) ==
    /\ ecall' = [op |-> "SetCurrentEpoch", epoch |-> epoch]
    /\ eret' = [err |-> ErrNil]
    /\ currentEpoch' = epoch
    /\ UNCHANGED <<epochLength, firstSlot, epochData, nextEpochData, headerDB,
                   highestFinalisedNumber>>
    /\ UNCHANGED gvars
    /\ UNCHANGED tvars
    /\ UNCHANGED lvars
    /\ UNCHANGED cvars
    /\ UNCHANGED kvars
    /\ UNCHANGED rvars
    /\ UNCHANGED hvars

\* a caller asks for the first slot of an epoch
CallGetStartSlotForEpoch(epoch) ==
    /\ ecall' = [op |-> "GetStartSlotForEpoch", epoch |-> epoch]
    /\ eret' = [slot |-> GetStartSlotForEpoch(epoch), err |-> ErrNil]
    /\ UNCHANGED <<epochLength, firstSlot, epochData, nextEpochData, headerDB,
                   highestFinalisedNumber, currentEpoch>>
    /\ UNCHANGED gvars
    /\ UNCHANGED tvars
    /\ UNCHANGED lvars
    /\ UNCHANGED cvars
    /\ UNCHANGED kvars
    /\ UNCHANGED rvars
    /\ UNCHANGED hvars

\* the first slot of the network, the current epoch and the start slot of an epoch
StartSlotNext ==
    \/ \E slot \in Slots : SetFirstSlot(slot)
    \/ \E epoch \in 0 .. MaxEpoch : SetCurrentEpoch(epoch)
    \/ \E epoch \in 0 .. MaxEpoch : CallGetStartSlotForEpoch(epoch)

-----------------------------------------------------------------------------
(* State trie: keys, values, nodes *)

\* the bytes of the keys: 0x00, 0x01
KeyBytes == {0, 1}
TrieKeys == {<<>>} \cup {<<a>> : a \in KeyBytes} \cup {<<a, b>> : a \in KeyBytes, b \in KeyBytes}

\* the values: a short one and one of 32 bytes
Values == {"v", "V"}
NoValue == "nil"
ValueLen(v) == IF v = "V" THEN 32 ELSE 1

\* the length of a hash, below which an encoding is referenced inline
HashLength == 32

RECURSIVE KeyLEToNibbles(_)
KeyLEToNibbles(key) ==
    IF key = <<>>
    THEN <<>>
    ELSE <<Head(key) \div 16, Head(key) % 16>> \o KeyLEToNibbles(Tail(key))

RECURSIVE lenCommonPrefix(_, _)
lenCommonPrefix(a, b) ==
    IF a = <<>> \/ b = <<>> \/ Head(a) # Head(b)
    THEN 0
    ELSE 1 + lenCommonPrefix(Tail(a), Tail(b))

Drop(seq, n) == SubSeq(seq, n + 1, Len(seq))
Take(seq, n) == SubSeq(seq, 1, n)

\* hash bytes: the Blake2b-256 digest of an encoding, or (for a short encoding of a node
\* that is not the root) the encoding itself; the empty byte slice
NoDigest == [none |-> TRUE]
Blake2bHash(encoding) == [inline |-> FALSE, of |-> encoding]
InlineDigest(encoding) == [inline |-> TRUE, of |-> encoding]

NilNode ==
    [type |-> "nil", key |-> <<>>, value |-> NoValue, children |-> EmptyMap,
     digest |-> NoDigest, dirty |-> FALSE]

NewLeaf(key, value, dirty) ==
    [type |-> "leaf", key |-> key, value |-> value, children |-> EmptyMap,
     digest |-> NoDigest, dirty |-> dirty]

NewBranch(key, value, children, dirty) ==
    [type |-> "branch", key |-> key, value |-> value, children |-> children,
     digest |-> NoDigest, dirty |-> dirty]

\* the leaf a decoded branch holds for a child it only knows the hash of
HashPointer(digest) ==
    [type |-> "leaf", key |-> <<>>, value |-> NoValue, children |-> EmptyMap,
     digest |-> digest, dirty |-> FALSE]

IsBranch(n) == n.type = "branch"

-----------------------------------------------------------------------------
(* State trie: encoding and hashing of nodes *)

RECURSIVE EncodingSize(_)
RECURSIVE Sum(_, _)
Sum(f, S) == IF S = {} THEN 0 ELSE LET x == CHOOSE y \in S : TRUE IN f[x] + Sum(f, S \ {x})

DigestLen(digest) ==
    IF digest = NoDigest THEN 0
    ELSE IF digest.inline THEN EncodingSize(digest.of)
    ELSE HashLength

\* header, partial key, value, and for a branch the bitmap and the child references
EncodingSize(enc) ==
    1 + ((Len(enc.key) + 1) \div 2)
      + (IF enc.value = NoValue THEN 0 ELSE 1 + ValueLen(enc.value))
      + (IF enc.type = "branch"
         THEN 2 + Sum([i \in DOMAIN enc.children |-> 1 + DigestLen(enc.children[i])],
                      DOMAIN enc.children)
         ELSE 0)

\* what a parent writes for a child: the encoding itself when short, its hash otherwise
MerkleValue(encoding) ==
    IF EncodingSize(encoding) < HashLength
    THEN InlineDigest(encoding)
    ELSE Blake2bHash(encoding)

RECURSIVE Encode(_)
\* a clean node with a cached hash contributes that hash
ChildReference(child) ==
    IF ~child.dirty /\ child.digest # NoDigest
    THEN child.digest
    ELSE MerkleValue(Encode(child))

Encode(n) ==
    [type |-> n.type, key |-> n.key, value |-> n.value,
     children |-> [i \in DOMAIN n.children |-> ChildReference(n.children[i])]]

\* n.EncodeAndHash(isRoot): the hash of the root is always the Blake2b digest
EncodeAndHash(n, isRoot) ==
    LET encoding == Encode(n)
    IN  [encoding |-> encoding,
         hash |-> IF isRoot THEN Blake2bHash(encoding) ELSE MerkleValue(encoding)]

\* bytes that are not the encoding of a node
MalformedEncoding == [type |-> "malformed", key |-> <<>>, value |-> NoValue, children |-> EmptyMap]

\* the child of a decoded branch: an inlined leaf is decoded in place, every other
\* reference is kept as a leaf that holds the reference as its hash
DecodeChild(ref) ==
    IF ref.inline /\ ref.of.type = "leaf"
    THEN NewLeaf(ref.of.key, ref.of.value, TRUE)
    ELSE HashPointer(ref)

\* node.Decode
Decode(encoding) ==
    IF encoding.type \notin {"leaf", "branch"}
    THEN [node |-> NilNode, err |-> "errDecode"]
    ELSE [node |-> [type |-> encoding.type, key |-> encoding.key, value |-> encoding.value,
                    children |-> [i \in DOMAIN encoding.children |->
                                      DecodeChild(encoding.children[i])],
                    digest |-> NoDigest, dirty |-> TRUE],
          err |-> ErrNil]

SetDirty(n, dirty) == [n EXCEPT !.dirty = dirty]
SetEncodingAndHash(n, encoding, hash) == [n EXCEPT !.digest = hash]

EmptyHash == Blake2bHash([type |-> "empty", key |-> <<>>, value |-> NoValue, children |-> EmptyMap])

\* t.Hash()
TrieHash(root) == IF root = NilNode THEN EmptyHash ELSE EncodeAndHash(root, TRUE).hash

-----------------------------------------------------------------------------
(* State trie: the trie of a set of key/value pairs *)

RECURSIVE BuildNode(_)
\* the node that holds the entries (nibble key -> value, at least one)
BuildNode(entries) ==
    LET keys == DOMAIN entries
        any == CHOOSE k \in keys : TRUE
    IN  IF keys = {any}
        THEN NewLeaf(any, entries[any], TRUE)
        ELSE LET p == CHOOSE n \in 0 .. Len(any) :
                        /\ \A k \in keys : Len(k) >= n /\ Take(k, n) = Take(any, n)
                        /\ \A m \in (n + 1) .. Len(any) :
                              \E k \in keys : Len(k) < m \/ Take(k, m) # Take(any, m)
                 partial == Take(any, p)
                 below == {k \in keys : Len(k) > p}
                 indexes == {k[p + 1] : k \in below}
             IN  NewBranch(partial,
                           IF partial \in keys THEN entries[partial] ELSE NoValue,
                           [i \in indexes |->
                               BuildNode([k \in {Drop(q, p + 1) : q \in {r \in below : r[p + 1] = i}}
                                            |-> entries[partial \o <<i>> \o k]])],
                           TRUE)

\* the trie that holds the pairs of kv (byte key -> value)
BuildTrie(kv) ==
    IF DOMAIN kv = {}
    THEN NilNode
    ELSE BuildNode([n \in {KeyLEToNibbles(k) : k \in DOMAIN kv} |->
                       kv[CHOOSE k \in DOMAIN kv : KeyLEToNibbles(k) = n]])

\* NewEmptyTrie, over an empty database
NewEmptyTrie ==
    /\ tkv = EmptyMap
    /\ troot = NilNode
    /\ tdb = EmptyMap
    /\ childTries = EmptyMap
    /\ tcall = [op |-> "NewEmptyTrie"]
    /\ tret = [err |-> ErrNil]

-----------------------------------------------------------------------------
(* State trie: Put, Delete, ClearPrefix *)

RECURSIVE Plain(_)
\* a node without its caches and flags
Plain(n) ==
    [type |-> n.type, key |-> n.key, value |-> n.value,
     children |-> [i \in DOMAIN n.children |-> Plain(n.children[i])]]

RECURSIVE Subtrees(_)
Subtrees(n) ==
    IF n = NilNode THEN {}
    ELSE {n} \cup UNION {Subtrees(n.children[i]) : i \in DOMAIN n.children}

RECURSIVE Touched(_)
\* the node with every cache below it dropped
Touched(n) ==
    [n EXCEPT !.dirty = TRUE, !.children = [i \in DOMAIN n.children |-> Touched(n.children[i])]]

RECURSIVE AllClean(_)
AllClean(n) == ~n.dirty /\ \A i \in DOMAIN n.children : AllClean(n.children[i])

RECURSIVE KeepClean(_, _)
\* the nodes an update does not touch keep their caches and stay clean; the nodes it
\* creates or changes are dirty
KeepClean(fresh, clean) ==
    IF \E o \in clean : Plain(o) = Plain(fresh)
    THEN CHOOSE o \in clean : Plain(o) = Plain(fresh)
    ELSE [fresh EXCEPT !.children =
              [i \in DOMAIN fresh.children |-> KeepClean(fresh.children[i], clean)]]

\* the trie after an update that leaves it with the pairs of kv: an unchanged clean root
\* stays, otherwise the root is dirty and the clean nodes below it are kept
Updated(root, kv) ==
    LET fresh == BuildTrie(kv)
        clean == {o \in Subtrees(root) \ {root} : AllClean(o)}
    IN  IF fresh = NilNode
        THEN NilNode
        ELSE IF AllClean(root) /\ Plain(root) = Plain(fresh)
        THEN root
        ELSE [fresh EXCEPT !.children =
                  [i \in DOMAIN fresh.children |-> KeepClean(fresh.children[i], clean)]]

\* t.Put(key, value)
TriePut(key, value) ==
    /\ Cardinality(DOMAIN tkv \cup {key}) <= MaxEntries
    /\ LET kv == [k \in DOMAIN tkv \cup {key} |-> IF k = key THEN value ELSE tkv[k]]
       IN  /\ tkv' = kv
           /\ troot' = Updated(troot, kv)
    /\ tcall' = [op |-> "Put"]
    /\ tret' = [err |-> ErrNil]
    /\ UNCHANGED tdb
    /\ UNCHANGED gvars
    /\ UNCHANGED evars
    /\ UNCHANGED lvars
    /\ UNCHANGED cvars
    /\ UNCHANGED kvars
    /\ UNCHANGED rvars
    /\ UNCHANGED hvars

\* t.Delete(key)
TrieDelete(key) ==
    /\ LET kv == [k \in DOMAIN tkv \ {key} |-> tkv[k]]
       IN  /\ tkv' = kv
           /\ troot' = Updated(troot, kv)
    /\ tcall' = [op |-> "Delete"]
    /\ tret' = [err |-> ErrNil]
    /\ UNCHANGED tdb
    /\ UNCHANGED gvars
    /\ UNCHANGED evars
    /\ UNCHANGED lvars
    /\ UNCHANGED cvars
    /\ UNCHANGED kvars
    /\ UNCHANGED rvars
    /\ UNCHANGED hvars

HasPrefix(key, prefix) == Len(key) >= Len(prefix) /\ Take(key, Len(prefix)) = prefix

\* t.ClearPrefix(prefix)
TrieClearPrefix(prefix) ==
    /\ LET kv == [k \in {q \in DOMAIN tkv : ~HasPrefix(q, prefix)} |-> tkv[k]]
       IN  /\ tkv' = kv
           /\ troot' = Updated(troot, kv)
    /\ tcall' = [op |-> "ClearPrefix"]
    /\ tret' = [err |-> ErrNil]
    /\ UNCHANGED tdb
    /\ UNCHANGED gvars
    /\ UNCHANGED evars
    /\ UNCHANGED lvars
    /\ UNCHANGED cvars
    /\ UNCHANGED kvars
    /\ UNCHANGED rvars
    /\ UNCHANGED hvars

-----------------------------------------------------------------------------
(* State trie: Store, Load, GetFromDB *)

\* a store that writes the node and leaves its children out
store_NoChildren(n, isRoot) ==
    LET eh == EncodeAndHash(n, isRoot)
    IN  [node |-> [n EXCEPT !.digest = eh.hash, !.dirty = FALSE],
         puts |-> {<<eh.hash, eh.encoding>>}]

RECURSIVE store(_, _)
\* t.store(batch, n): the node with its descendants marked clean, and what is put in the batch
store(n, isRoot) ==
    LET eh == EncodeAndHash(n, isRoot)
        below == [i \in DOMAIN n.children |-> store(n.children[i], FALSE)]
        puts == {<<eh.hash, eh.encoding>>} \cup UNION {below[i].puts : i \in DOMAIN below}
    IN  [node |-> [n EXCEPT !.digest = eh.hash,
                            !.dirty = FALSE,
                            !.children = [i \in DOMAIN below |-> below[i].node]],
         puts |-> puts]

\* batch.Flush(): every pair put in the batch is written
Flush(db, puts) ==
    [h \in DOMAIN db \cup {p[1] : p \in puts} |->
        IF \E p \in puts : p[1] = h
        THEN (CHOOSE p \in puts : p[1] = h)[2]
        ELSE db[h]]

\* t.Store(db)
TrieStore ==
    /\ IF troot = NilNode
       THEN UNCHANGED <<troot, tdb>>
       ELSE LET stored == store(troot, TRUE)
            IN  /\ troot' = stored.node
                /\ tdb' = Flush(tdb, stored.puts)
    /\ tcall' = [op |-> "Store"]
    /\ tret' = [err |-> ErrNil]
    /\ UNCHANGED tkv
    /\ UNCHANGED gvars
    /\ UNCHANGED evars
    /\ UNCHANGED lvars
    /\ UNCHANGED cvars
    /\ UNCHANGED kvars
    /\ UNCHANGED rvars
    /\ UNCHANGED hvars

ErrKeyNotFound == "Key not found"

RECURSIVE load(_, _)
\* t.load(db, n): the node with the descendants the database holds, and the error
load(db, n) ==
    IF ~IsBranch(n)
    THEN [node |-> n, err |-> ErrNil]
    ELSE LET below == [i \in DOMAIN n.children |->
                 LET child == n.children[i]
                     hash == child.digest
                 IN  IF DigestLen(hash) = 0 /\ child.type = "leaf"
                     THEN [node |-> [child EXCEPT !.digest = EncodeAndHash(child, FALSE).hash,
                                                  !.dirty = FALSE],
                           err |-> ErrNil]
                     ELSE IF hash \notin DOMAIN db
                     THEN [node |-> child, err |-> ErrKeyNotFound]
                     ELSE LET decoded == Decode(db[hash])
                          IN  IF decoded.err # ErrNil
                              THEN [node |-> child, err |-> decoded.err]
                              ELSE load(db, SetEncodingAndHash(SetDirty(decoded.node, FALSE),
                                                               db[hash], hash))]
         IN  [node |-> [n EXCEPT !.children = [i \in DOMAIN below |-> below[i].node]],
              err |-> IF \A i \in DOMAIN below : below[i].err = ErrNil
                      THEN ErrNil
                      ELSE below[CHOOSE i \in DOMAIN below : below[i].err # ErrNil].err]

\* t.Load(db, rootHash) on a new empty trie. No key of TrieKeys carries the prefix of
\* the child storage keys, so that no child trie is loaded.
Load(db, rootHash) ==
    IF rootHash = EmptyHash
    THEN [node |-> NilNode, err |-> ErrNil]
    ELSE IF rootHash \notin DOMAIN db
    THEN [node |-> NilNode, err |-> ErrKeyNotFound]
    ELSE LET decoded == Decode(db[rootHash])
         IN  IF decoded.err # ErrNil
             THEN [node |-> NilNode, err |-> decoded.err]
             ELSE load(db, SetEncodingAndHash(SetDirty(decoded.node, FALSE),
                                              db[rootHash], rootHash))

\* trie.NewEmptyTrie().Load(db, t.Hash())
CallLoad ==
    /\ LET loaded == Load(tdb, TrieHash(troot))
       IN  tret' = [root |-> loaded.node, hash |-> TrieHash(loaded.node), err |-> loaded.err]
    /\ tcall' = [op |-> "Load"]
    /\ UNCHANGED <<tkv, troot, tdb>>
    /\ UNCHANGED gvars
    /\ UNCHANGED evars
    /\ UNCHANGED lvars
    /\ UNCHANGED cvars
    /\ UNCHANGED kvars
    /\ UNCHANGED rvars
    /\ UNCHANGED hvars

RECURSIVE getFromDB(_, _, _)
\* getFromDB(db, n, key), key in nibbles
getFromDB(db, n, key) ==
    IF n.type = "leaf"
    THEN IF n.key = key
         THEN [value |-> n.value, err |-> ErrNil]
         ELSE [value |-> NoValue, err |-> ErrNil]
    ELSE IF Len(key) = 0 \/ n.key = key
    THEN [value |-> n.value, err |-> ErrNil]
    ELSE LET commonPrefixLength == lenCommonPrefix(n.key, key)
         IN  IF Len(key) < Len(n.key) /\ Take(n.key, commonPrefixLength) = key
             THEN [value |-> NoValue, err |-> ErrNil]
             ELSE LET childIndex == key[commonPrefixLength + 1]
                      rest == Drop(key, commonPrefixLength + 1)
                  IN  IF childIndex \notin DOMAIN n.children
                      THEN [value |-> NoValue, err |-> ErrNil]
                      ELSE LET child == n.children[childIndex]
                               childHash == child.digest
                           IN  IF DigestLen(childHash) = 0 /\ child.type = "leaf"
                               THEN getFromDB(db, child, rest)
                               ELSE IF childHash \notin DOMAIN db
                               THEN [value |-> NoValue, err |-> ErrKeyNotFound]
                               ELSE LET decoded == Decode(db[childHash])
                                    IN  IF decoded.err # ErrNil
                                        THEN [value |-> NoValue, err |-> decoded.err]
                                        ELSE getFromDB(db, decoded.node, rest)

\* GetFromDB(db, rootHash, key)
GetFromDB(db, rootHash, key) ==
    IF rootHash = EmptyHash
    THEN [value |-> NoValue, err |-> ErrNil]
    ELSE IF rootHash \notin DOMAIN db
    THEN [value |-> NoValue, err |-> ErrKeyNotFound]
    ELSE LET decoded == Decode(db[rootHash])
         IN  IF decoded.err # ErrNil
             THEN [value |-> NoValue, err |-> decoded.err]
             ELSE getFromDB(db, decoded.node, KeyLEToNibbles(key))

\* GetFromDB(db, t.Hash(), key)
CallGetFromDB(key) ==
    /\ tret' = GetFromDB(tdb, TrieHash(troot), key)
    /\ tcall' = [op |-> "GetFromDB", key |-> key]
    /\ UNCHANGED <<tkv, troot, tdb>>
    /\ UNCHANGED gvars
    /\ UNCHANGED evars
    /\ UNCHANGED lvars
    /\ UNCHANGED cvars
    /\ UNCHANGED kvars
    /\ UNCHANGED rvars
    /\ UNCHANGED hvars

\* the trie is built in memory before it is stored
PutBeforeStore(key, value) ==
    /\ tdb = EmptyMap
    /\ TriePut(key, value)

TrieStoreNext ==
    \/ \E key \in TrieKeys, value \in Values : PutBeforeStore(key, value)
    \/ TrieStore
    \/ CallLoad
    \/ \E key \in TrieKeys : CallGetFromDB(key)

-----------------------------------------------------------------------------
(* State trie: WriteDirty *)

\* a write that takes a clean branch for a branch without dirty nodes below it, and is
\* handed only the root
writeDirty_RootOnly(n, isRoot) ==
    IF ~n.dirty
    THEN [node |-> n, puts |-> {}]
    ELSE LET eh == EncodeAndHash(n, isRoot)
         IN  [node |-> [n EXCEPT !.digest = eh.hash, !.dirty = FALSE],
              puts |-> {<<eh.hash, eh.encoding>>}]

RECURSIVE writeDirty(_, _)
\* t.writeDirty(batch, n): the node with its dirty descendants marked clean, and what is
\* put in the batch. The trie has no child tries.
writeDirty(n, isRoot) ==
    IF ~n.dirty
    THEN [node |-> n, puts |-> {}]
    ELSE LET eh == EncodeAndHash(n, isRoot)
             below == [i \in DOMAIN n.children |-> writeDirty(n.children[i], FALSE)]
         IN  [node |-> [n EXCEPT !.digest = eh.hash,
                                 !.dirty = FALSE,
                                 !.children = [i \in DOMAIN below |-> below[i].node]],
              puts |-> {<<eh.hash, eh.encoding>>}
                           \cup UNION {below[i].puts : i \in DOMAIN below}]

\* t.WriteDirty(db)
WriteDirty ==
    /\ IF troot = NilNode
       THEN UNCHANGED <<troot, tdb>>
       ELSE LET written == writeDirty(troot, TRUE)
            IN  /\ troot' = written.node
                /\ tdb' = Flush(tdb, written.puts)
    /\ tcall' = [op |-> "WriteDirty"]
    /\ tret' = [err |-> ErrNil]
    /\ UNCHANGED tkv
    /\ UNCHANGED gvars
    /\ UNCHANGED evars
    /\ UNCHANGED lvars
    /\ UNCHANGED cvars
    /\ UNCHANGED kvars
    /\ UNCHANGED rvars
    /\ UNCHANGED hvars

\* the keys of the updates between two writes: 0x00 and the keys it is a prefix of
UpdatedKeys == {<<0>>, <<0, 0>>, <<0, 1>>}

\* the trie is updated and written while the database holds up to MaxStored nodes
TrieDirtyNext ==
    /\ Cardinality(DOMAIN tdb) <= MaxStored
    /\ \/ \E key \in UpdatedKeys, value \in Values : TriePut(key, value)
       \/ \E key \in UpdatedKeys : TrieDelete(key)
       \/ \E prefix \in UpdatedKeys : TrieClearPrefix(prefix)
       \/ WriteDirty

-----------------------------------------------------------------------------
(* State trie: LoadFromProof *)

ErrEmptyProof == "proof slice empty"
ErrDecodeNode == "cannot decode node"
\* loadProof is handed a nil root and calls n.Type() on it
NilDereference == "panic: nil pointer dereference"

\* the index of the first entry of the proof that node.Decode rejects, from 1
FirstMalformed(proofEncodedNodes) ==
    CHOOSE i \in 1 .. Len(proofEncodedNodes) :
        /\ Decode(proofEncodedNodes[i]).err # ErrNil
        /\ \A j \in 1 .. (i - 1) : Decode(proofEncodedNodes[j]).err = ErrNil

\* the decoded entry: clean, with the raw entry as cached encoding and the hash of it
ProofNode(rawNode) ==
    SetEncodingAndHash(SetDirty(Decode(rawNode).node, FALSE), rawNode, MerkleValue(rawNode))

\* proofHashToNode after the loop over the entries
ProofHashToNode(proofEncodedNodes) ==
    [h \in {MerkleValue(proofEncodedNodes[i]) : i \in 1 .. Len(proofEncodedNodes)} |->
        ProofNode(proofEncodedNodes[
            CHOOSE i \in 1 .. Len(proofEncodedNodes) : MerkleValue(proofEncodedNodes[i]) = h])]

\* a load that attaches no entry of the proof below the root
loadProof_NothingAttached(proofHashToNode, n) == n

RECURSIVE loadProof(_, _)
\* t.loadProof(proofHashToNode, n): the node with every child the proof holds attached
loadProof(proofHashToNode, n) ==
    IF ~IsBranch(n)
    THEN n
    ELSE [n EXCEPT !.children =
             [i \in DOMAIN n.children |->
                 IF n.children[i].digest \in DOMAIN proofHashToNode
                 THEN loadProof(proofHashToNode, proofHashToNode[n.children[i].digest])
                 ELSE n.children[i]]]

\* a load that takes the proof for well-formed as soon as its first entry is
LoadFromProof_FirstEntryOnly(root, proofEncodedNodes, rootHash) ==
    IF Len(proofEncodedNodes) = 0
    THEN [root |-> root, err |-> ErrEmptyProof, index |-> 0]
    ELSE IF Decode(proofEncodedNodes[1]).err # ErrNil
    THEN [root |-> root, err |-> ErrDecodeNode, index |-> 0]
    ELSE [root |-> root, err |-> ErrNil, index |-> 0]

\* t.LoadFromProof(proofEncodedNodes, rootHash) on a trie with the given root
LoadFromProof(root, proofEncodedNodes, rootHash) ==
    IF Len(proofEncodedNodes) = 0
    THEN [root |-> root, err |-> ErrEmptyProof, index |-> 0]
    ELSE LET malformed == \E i \in 1 .. Len(proofEncodedNodes) :
                              Decode(proofEncodedNodes[i]).err # ErrNil
             decoded == IF malformed
                        THEN Take(proofEncodedNodes, FirstMalformed(proofEncodedNodes) - 1)
                        ELSE proofEncodedNodes
             proofHashToNode == ProofHashToNode(decoded)
             found == IF rootHash \in DOMAIN proofHashToNode
                      THEN proofHashToNode[rootHash]
                      ELSE root
         IN  IF malformed
             THEN [root |-> found, err |-> ErrDecodeNode,
                   index |-> FirstMalformed(proofEncodedNodes) - 1]
             ELSE IF found = NilNode
             THEN [root |-> found, err |-> NilDereference, index |-> 0]
             ELSE [root |-> loadProof(proofHashToNode, found), err |-> ErrNil, index |-> 0]

\* the encodings of the nodes of the trie
NodeEncodings(root) == {Encode(Touched(n)) : n \in Subtrees(root)}

\* the proofs: up to MaxProofLen encoded nodes of the trie and malformed entries
Proofs(root) ==
    UNION {[1 .. n -> NodeEncodings(root) \cup {MalformedEncoding}] : n \in 0 .. MaxProofLen}

\* trie.NewEmptyTrie().LoadFromProof(proof, t.Hash())
CallLoadFromProof(proofEncodedNodes) ==
    /\ tret' = LoadFromProof(NilNode, proofEncodedNodes, TrieHash(troot))
    /\ tcall' = [op |-> "LoadFromProof", proof |-> proofEncodedNodes]
    /\ UNCHANGED <<tkv, troot, tdb>>
    /\ UNCHANGED gvars
    /\ UNCHANGED evars
    /\ UNCHANGED lvars
    /\ UNCHANGED cvars
    /\ UNCHANGED kvars
    /\ UNCHANGED rvars
    /\ UNCHANGED hvars

RECURSIVE retrieve(_, _)
\* the lookup of t.Get in the nodes in memory, key in nibbles
retrieve(n, key) ==
    IF n = NilNode
    THEN NoValue
    ELSE IF n.type = "leaf"
    THEN IF n.key = key THEN n.value ELSE NoValue
    ELSE IF n.key = key
    THEN n.value
    ELSE IF Len(key) < Len(n.key)
    THEN NoValue
    ELSE LET p == lenCommonPrefix(n.key, key)
         IN  IF key[p + 1] \notin DOMAIN n.children
             THEN NoValue
             ELSE retrieve(n.children[key[p + 1]], Drop(key, p + 1))

\* t.Get(key) on a trie with the given root
Get(root, key) == retrieve(root, KeyLEToNibbles(key))

\* every proof is loaded into a new trie, which leaves the trie it was taken from as it
\* is: a load that follows a load reaches nothing a load after the Put does not reach
TrieProofNext ==
    \/ \E key \in UpdatedKeys, value \in Values : PutBeforeStore(key, value)
    \/ /\ tcall.op # "LoadFromProof"
       /\ \E proof \in Proofs(troot) : CallLoadFromProof(proof)

-----------------------------------------------------------------------------
(* State trie: child tries and failing batches *)

\* the prefix ":child_storage:" of the keys that hold the root hash of a child trie,
\* as the one byte 0x02, which no key of TrieKeys starts with
ChildStorageKeyPrefix == <<2>>

\* the pairs of the child trie: a branch with a value and a leaf below it
ChildPairs == (<<0>> :> "v") @@ (<<0, 0>> :> "V")

\* common.BytesToHash(value): the 32 bytes "V" are the root hash of the trie of
\* ChildPairs; every other value gives 32 bytes that no stored node hashes to
BytesToHash(value) ==
    IF value = "V"
    THEN TrieHash(BuildTrie(ChildPairs))
    ELSE Blake2bHash(MalformedEncoding)

\* t.PutChild(keyToChild, child) with an empty keyToChild and a new child trie
PutChild ==
    /\ LET child == BuildTrie(ChildPairs)
           kv == Store(tkv, ChildStorageKeyPrefix, "V")
       IN  /\ tkv' = kv
           /\ troot' = Updated(troot, kv)
           /\ childTries' = Store(childTries, TrieHash(child), child)
    /\ tcall' = [op |-> "PutChild"]
    /\ tret' = [err |-> ErrNil]
    /\ UNCHANGED tdb
    /\ UNCHANGED gvars
    /\ UNCHANGED evars
    /\ UNCHANGED lvars
    /\ UNCHANGED cvars
    /\ UNCHANGED kvars
    /\ UNCHANGED rvars

\* the errors of a batch of the database
ErrPut == "batch put failed"
ErrFlush == "batch flush failed"

\* a batch of the database in which the next `left` Puts succeed
NewBatch(left) == [left |-> left, puts |-> {}, err |-> ErrNil]

RECURSIVE SortedIndexes(_)
\* the indexes of the children of a branch, in ascending order
SortedIndexes(S) ==
    IF S = {}
    THEN <<>>
    ELSE LET least == CHOOSE i \in S : \A j \in S : i <= j
         IN  <<least>> \o SortedIndexes(S \ {least})

RECURSIVE storeIn(_, _, _)
RECURSIVE storeChildrenIn(_, _, _)
\* t.store(batch, n) on a batch whose Put may fail: the node, marked clean with its
\* descendants when every Put below it succeeded, and the batch
storeIn(n, isRoot, batch) ==
    IF batch.err # ErrNil \/ n = NilNode
    THEN [node |-> n, batch |-> batch]
    ELSE IF batch.left = 0
    THEN [node |-> n, batch |-> [batch EXCEPT !.err = ErrPut]]
    ELSE LET eh == EncodeAndHash(n, isRoot)
             put == [batch EXCEPT !.left = @ - 1,
                                  !.puts = @ \cup {<<eh.hash, eh.encoding>>}]
             below == storeChildrenIn(n.children, SortedIndexes(DOMAIN n.children), put)
         IN  [node |-> [n EXCEPT !.digest = eh.hash,
                                 !.children = below.children,
                                 !.dirty = IF below.batch.err = ErrNil THEN FALSE ELSE @],
              batch |-> below.batch]

storeChildrenIn(children, indexes, batch) ==
    IF indexes = <<>>
    THEN [children |-> children, batch |-> batch]
    ELSE LET stored == storeIn(children[Head(indexes)], FALSE, batch)
         IN  storeChildrenIn([children EXCEPT ![Head(indexes)] = stored.node],
                             Tail(indexes), stored.batch)

RECURSIVE StoreChildTries(_, _, _, _, _)
\* the loop of Store over t.childTries: each child trie is stored with a batch of its
\* own, which is flushed before the next child trie and before the batch of the trie
StoreChildTries(hashes, tries, db, putsOK, flushesOK) ==
    IF hashes = {}
    THEN [tries |-> tries, db |-> db, putsOK |-> putsOK, flushesOK |-> flushesOK,
          err |-> ErrNil]
    ELSE LET h == CHOOSE x \in hashes : TRUE
             stored == storeIn(tries[h], TRUE, NewBatch(putsOK))
             marked == [tries EXCEPT ![h] = stored.node]
         IN  IF stored.batch.err # ErrNil
             THEN [tries |-> marked, db |-> db, putsOK |-> 0, flushesOK |-> flushesOK,
                   err |-> stored.batch.err]
             ELSE IF flushesOK = 0
             THEN [tries |-> marked, db |-> db, putsOK |-> stored.batch.left,
                   flushesOK |-> 0, err |-> ErrFlush]
             ELSE StoreChildTries(hashes \ {h}, marked, Flush(db, stored.batch.puts),
                                  stored.batch.left, flushesOK - 1)

\* t.Store(db) on a database whose next putsOK Puts and next flushesOK Flushes succeed
StoreOn(putsOK, flushesOK) ==
    /\ LET children == StoreChildTries(DOMAIN childTries, childTries, tdb, putsOK, flushesOK)
           stored == storeIn(troot, TRUE, NewBatch(children.putsOK))
       IN  /\ childTries' = children.tries
           /\ IF children.err # ErrNil
              THEN /\ tret' = [err |-> children.err]
                   /\ tdb' = children.db
                   /\ UNCHANGED troot
              ELSE /\ troot' = stored.node
                   /\ IF stored.batch.err # ErrNil
                      THEN \* batch.Reset()
                           /\ tret' = [err |-> stored.batch.err]
                           /\ tdb' = children.db
                      ELSE IF children.flushesOK = 0
                      THEN /\ tret' = [err |-> ErrFlush]
                           /\ tdb' = children.db
                      ELSE /\ tret' = [err |-> ErrNil]
                           /\ tdb' = Flush(children.db, stored.batch.puts)
    /\ tcall' = [op |-> "Store"]
    /\ UNCHANGED tkv
    /\ UNCHANGED gvars
    /\ UNCHANGED evars
    /\ UNCHANGED lvars
    /\ UNCHANGED cvars
    /\ UNCHANGED kvars
    /\ UNCHANGED rvars

RECURSIVE writeDirtyIn(_, _, _, _)
RECURSIVE writeDirtyChildrenIn(_, _, _, _)
RECURSIVE writeDirtyChildTries(_, _)
\* t.writeDirty(batch, n) on a batch whose Put may fail, for the trie itself (withTries:
\* the child tries are written after the children of each dirty branch) or for one of
\* its child tries. The batch carries the child tries: work.tries.
writeDirtyIn(n, isRoot, work, withTries) ==
    IF work.err # ErrNil \/ n = NilNode \/ ~n.dirty
    THEN [node |-> n, work |-> work]
    ELSE IF work.left = 0
    THEN [node |-> n, work |-> [work EXCEPT !.err = ErrPut]]
    ELSE LET eh == EncodeAndHash(n, isRoot)
             put == [work EXCEPT !.left = @ - 1,
                                 !.puts = @ \cup {<<eh.hash, eh.encoding>>}]
         IN  IF ~IsBranch(n)
             THEN [node |-> [n EXCEPT !.digest = eh.hash, !.dirty = FALSE], work |-> put]
             ELSE LET below == writeDirtyChildrenIn(n.children,
                                                    SortedIndexes(DOMAIN n.children),
                                                    put, withTries)
                      after == IF withTries
                               THEN writeDirtyChildTries(DOMAIN below.work.tries, below.work)
                               ELSE below.work
                  IN  [node |-> [n EXCEPT !.digest = eh.hash,
                                          !.children = below.children,
                                          !.dirty = (after.err # ErrNil)],
                       work |-> after]

writeDirtyChildrenIn(children, indexes, work, withTries) ==
    IF indexes = <<>>
    THEN [children |-> children, work |-> work]
    ELSE LET written == writeDirtyIn(children[Head(indexes)], FALSE, work, withTries)
         IN  writeDirtyChildrenIn([children EXCEPT ![Head(indexes)] = written.node],
                                  Tail(indexes), written.work, withTries)

\* the loop of writeDirty over t.childTries, in the batch of the trie
writeDirtyChildTries(hashes, work) ==
    IF hashes = {} \/ work.err # ErrNil
    THEN work
    ELSE LET h == CHOOSE x \in hashes : TRUE
             written == writeDirtyIn(work.tries[h], TRUE, work, FALSE)
         IN  writeDirtyChildTries(hashes \ {h},
                                  [written.work EXCEPT !.tries[h] = written.node])

\* t.WriteDirty(db) on a database whose next putsOK Puts succeed and whose Flush
\* succeeds or fails
WriteDirtyOn(putsOK, flushOK) ==
    /\ LET work == [left |-> putsOK, puts |-> {}, err |-> ErrNil, tries |-> childTries]
           written == writeDirtyIn(troot, TRUE, work, TRUE)
       IN  /\ troot' = written.node
           /\ childTries' = written.work.tries
           /\ IF written.work.err # ErrNil
              THEN \* batch.Reset()
                   /\ tret' = [err |-> written.work.err]
                   /\ UNCHANGED tdb
              ELSE IF ~flushOK
              THEN /\ tret' = [err |-> ErrFlush]
                   /\ UNCHANGED tdb
              ELSE /\ tret' = [err |-> ErrNil]
                   /\ tdb' = Flush(tdb, written.work.puts)
    /\ tcall' = [op |-> "WriteDirty"]
    /\ UNCHANGED tkv
    /\ UNCHANGED gvars
    /\ UNCHANGED evars
    /\ UNCHANGED lvars
    /\ UNCHANGED cvars
    /\ UNCHANGED kvars
    /\ UNCHANGED rvars

RECURSIVE Pairs(_, _)
\* the keys, in nibbles, and the values of the nodes in memory at and below n
Pairs(n, above) ==
    IF n = NilNode
    THEN {}
    ELSE (IF n.value # NoValue THEN {<<above \o n.key, n.value>>} ELSE {})
            \cup UNION {Pairs(n.children[i], above \o n.key \o <<i>>) :
                           i \in DOMAIN n.children}

\* the pairs of the trie whose key has the prefix of the child storage keys
ChildStoragePairs(root) ==
    {p \in Pairs(root, <<>>) : HasPrefix(p[1], KeyLEToNibbles(ChildStorageKeyPrefix))}

\* t.Load(db, rootHash) on a new empty trie, with the child tries it registers. The
\* loop over the child storage keys stands at the end of load, after the return that
\* load makes for a node that is not a branch. The children of the roots loaded here
\* are leaves, so that the loop runs once, at the end of the load of the root.
LoadWithChildTries(db, rootHash) ==
    LET main == Load(db, rootHash)
        childs == ChildStoragePairs(main.node)
        loaded == [p \in childs |-> Load(db, BytesToHash(p[2]))]
    IN  IF main.err # ErrNil \/ ~IsBranch(main.node)
        THEN [node |-> main.node, tries |-> EmptyMap, err |-> main.err]
        ELSE IF \E p \in childs : loaded[p].err # ErrNil
        THEN [node |-> main.node, tries |-> EmptyMap, err |-> "failed to load child trie"]
        ELSE [node |-> main.node,
              tries |-> [h \in {TrieHash(loaded[p].node) : p \in childs} |->
                            loaded[CHOOSE p \in childs : TrieHash(loaded[p].node) = h].node],
              err |-> ErrNil]

\* trie.NewEmptyTrie().Load(db, t.Hash())
CallLoadWithChildTries ==
    /\ LET loaded == LoadWithChildTries(tdb, TrieHash(troot))
       IN  tret' = [root |-> loaded.node, tries |-> loaded.tries, err |-> loaded.err]
    /\ tcall' = [op |-> "Load"]
    /\ UNCHANGED <<tkv, troot, tdb, childTries>>
    /\ UNCHANGED gvars
    /\ UNCHANGED evars
    /\ UNCHANGED lvars
    /\ UNCHANGED cvars
    /\ UNCHANGED kvars
    /\ UNCHANGED rvars

\* the number of Puts that succeed before one fails ranges over 0 .. MaxPuts: the
\* tries written here take up to five Puts
BatchPuts == 0 .. MaxPuts
\* the number of Flushes that succeed before one fails
BatchFlushes == 0 .. MaxFlushes

\* a trie with the key 0x00 and a child trie is built in memory, then stored on a
\* database whose batches may fail, and loaded from it
TrieChildStoreNext ==
    \/ /\ tdb = EmptyMap
       /\ \/ \E value \in Values : TriePut(<<0>>, value)
          \/ PutChild
          \/ \E key \in {<<0>>, ChildStorageKeyPrefix} : TrieDelete(key)
    \/ \E putsOK \in BatchPuts, flushesOK \in BatchFlushes : StoreOn(putsOK, flushesOK)
    \/ /\ tcall.op # "Load"
       /\ CallLoadWithChildTries

\* a trie with the key 0x00 and a child trie is updated and written, on a database
\* whose batches may fail, while the database holds up to MaxStored nodes
TrieChildDirtyNext ==
    /\ Cardinality(DOMAIN tdb) <= MaxStored
    /\ \/ \E value \in Values : TriePut(<<0>>, value)
       \/ PutChild
       \/ \E key \in {<<0>>, ChildStorageKeyPrefix} : TrieDelete(key)
       \/ \E putsOK \in BatchPuts, flushOK \in BOOLEAN : WriteDirtyOn(putsOK, flushOK)

-----------------------------------------------------------------------------
(* Core service: runtime registry, chain reorganisation and transaction pool *)

GenesisHash == 0

\* the WASM code under ":code", and its Blake2b-256 hash
Codes == {"code0", "code1"}
CodeHash(code) == [blake2b |-> code]

\* a runtime instance: the hash of its code and the block it was instantiated for
NewInstance(code, hash) == [codeHash |-> CodeHash(code), createdFor |-> hash]

\* the code a runtime instance runs
CodeOf(rt) == rt.codeHash.blake2b

Extrinsics == {"x1", "x2"}
\* the bodies of the blocks
Bodies == {<<>>, <<"x1">>, <<"x2", "x2">>}

\* the validity an extrinsic is put into the pool with before it is validated again
StaleValidity == [priority |-> 1]

\* rt.ValidateTransaction(ext): x1 is valid under every runtime, with a priority that
\* depends on the code; x2 is valid under code0 only
ValidateTransaction(rt, ext) ==
    IF ext = "x1"
    THEN [err |-> ErrNil,
          validity |-> [priority |-> IF CodeOf(rt) = "code0" THEN 2 ELSE 3]]
    ELSE IF CodeOf(rt) = "code0"
    THEN [err |-> ErrNil, validity |-> [priority |-> 4]]
    ELSE [err |-> "Invalid transaction", validity |-> [priority |-> 0]]

NewCoreService ==
    /\ blocks = Store(EmptyMap, GenesisHash,
                      [parent |-> GenesisHash, number |-> 0, body |-> <<>>])
    /\ runtimes = Store(EmptyMap, GenesisHash, NewInstance("code0", GenesisHash))
    /\ pool = EmptyMap
    /\ ccall = [op |-> "NewService"]
    /\ cret = [err |-> ErrNil]

\* the blocks no block has as its parent
Leaves ==
    {h \in DOMAIN blocks : \A k \in DOMAIN blocks : k = h \/ blocks[k].parent # h}

\* the leaf of greatest number, the smallest hash among several
BestBlockHash ==
    CHOOSE h \in Leaves :
       \A k \in Leaves :
          \/ blocks[k].number < blocks[h].number
          \/ blocks[k].number = blocks[h].number /\ h <= k

RECURSIVE Ancestors(_)
\* the block and the blocks it descends from
Ancestors(h) == IF h = GenesisHash THEN {h} ELSE {h} \cup Ancestors(blocks[h].parent)

HighestCommonAncestor(a, b) ==
    CHOOSE h \in Ancestors(a) \cap Ancestors(b) :
       \A k \in Ancestors(a) \cap Ancestors(b) : blocks[k].number <= blocks[h].number

\* the blocks after the ancestor up to the head of the branch
SubChain(ancestor, head) == Ancestors(head) \ Ancestors(ancestor)

\* the extrinsics of a sequence of extrinsics
Range(seq) == {seq[i] : i \in 1 .. Len(seq)}

\* HandleRuntimeChanges without the comparison of the code hashes
HandleRuntimeChanges_AlwaysNew(registry, code, parentRt, newBlockHash) ==
    Store(registry, newBlockHash, NewInstance(code, newBlockHash))

\* HandleRuntimeChanges(trieState, parentRt, newBlockHash), code being the value of
\* ":code" in the trie state: the registry it leaves
HandleRuntimeChanges(registry, code, parentRt, newBlockHash) ==
    IF CodeHash(code) # parentRt.codeHash
    THEN Store(registry, newBlockHash, NewInstance(code, newBlockHash))
    ELSE Store(registry, newBlockHash, parentRt)

\* handleBlock(block, trieState): the block is persisted and HandleRuntimeChanges runs
\* with the runtime of its parent
handleBlock(parent, body, code) ==
    LET hash == Cardinality(DOMAIN blocks)
    IN  /\ Cardinality(DOMAIN blocks) <= MaxBlocks
        /\ parent \in DOMAIN blocks
        /\ blocks' = Store(blocks, hash,
                           [parent |-> parent, number |-> blocks[parent].number + 1,
                            body |-> body])
        /\ runtimes' = HandleRuntimeChanges(runtimes, code, runtimes[parent], hash)
        /\ ccall' = [op |-> "handleBlock", hash |-> hash, parent |-> parent, code |-> code]
        /\ cret' = [err |-> ErrNil]
        /\ UNCHANGED pool
        /\ UNCHANGED gvars
        /\ UNCHANGED evars
        /\ UNCHANGED tvars
        /\ UNCHANGED lvars
        /\ UNCHANGED kvars
        /\ UNCHANGED rvars
        /\ UNCHANGED hvars

\* the nil runtime.Instance
NoRuntime == [nil |-> TRUE]

\* blockState.GetRuntime(hash)
GetRuntime(hash) ==
    IF Has(runtimes, hash)
    THEN [runtime |-> runtimes[hash], err |-> ErrNil]
    ELSE [runtime |-> NoRuntime, err |-> "ErrFailedToGetRuntime"]

CallGetRuntime(hash) ==
    /\ ccall' = [op |-> "GetRuntime", hash |-> hash]
    /\ cret' = GetRuntime(hash)
    /\ UNCHANGED <<blocks, runtimes, pool>>
    /\ UNCHANGED gvars
    /\ UNCHANGED evars
    /\ UNCHANGED tvars
    /\ UNCHANGED lvars
    /\ UNCHANGED kvars
    /\ UNCHANGED rvars
    /\ UNCHANGED hvars

\* transactionState.AddToPool(tx)
AddToPool(ext, validity) ==
    /\ pool' = Store(pool, ext, validity)
    /\ ccall' = [op |-> "AddToPool", ext |-> ext]
    /\ cret' = [err |-> ErrNil]
    /\ UNCHANGED <<blocks, runtimes>>
    /\ UNCHANGED gvars
    /\ UNCHANGED evars
    /\ UNCHANGED tvars
    /\ UNCHANGED lvars
    /\ UNCHANGED kvars
    /\ UNCHANGED rvars
    /\ UNCHANGED hvars

\* the pool with the extrinsics of exts that are valid under rt, each under its
\* validity under rt
Reinserted(p, exts, rt) ==
    LET valid == {x \in exts : ValidateTransaction(rt, x).err = ErrNil}
    IN  [x \in DOMAIN p \cup valid |->
            IF x \in valid THEN ValidateTransaction(rt, x).validity ELSE p[x]]

\* handleChainReorg that walks the blocks of the branch of the new head
Reorganised_WrongBranch(p, from, to) ==
    LET ancestor == HighestCommonAncestor(from, to)
    IN  IF ancestor = from THEN p
        ELSE Reinserted(p, UNION {Range(blocks[h].body) : h \in SubChain(ancestor, to)},
                        runtimes[BestBlockHash])

\* the pool handleChainReorg(from, to) leaves
Reorganised(p, from, to) ==
    LET ancestor == HighestCommonAncestor(from, to)
    IN  IF ancestor = from THEN p
        ELSE Reinserted(p, UNION {Range(blocks[h].body) : h \in SubChain(ancestor, from)},
                        runtimes[BestBlockHash])

handleChainReorg(from, to) ==
    /\ pool' = Reorganised(pool, from, to)
    /\ ccall' = [op |-> "handleChainReorg", from |-> from, to |-> to]
    /\ cret' = [err |-> ErrNil]
    /\ UNCHANGED <<blocks, runtimes>>
    /\ UNCHANGED gvars
    /\ UNCHANGED evars
    /\ UNCHANGED tvars
    /\ UNCHANGED lvars
    /\ UNCHANGED kvars
    /\ UNCHANGED rvars
    /\ UNCHANGED hvars

\* maintainTransactionPool that keeps the validity of the extrinsics that stay
Maintained_ValidityKept(p, body, rt) ==
    LET remaining == DOMAIN p \ Range(body)
        valid == {x \in remaining : ValidateTransaction(rt, x).err = ErrNil}
    IN  [x \in valid |-> p[x]]

\* the pool maintainTransactionPool leaves: without the extrinsics of the body, the
\* others validated again under rt
Maintained(p, body, rt) ==
    LET remaining == DOMAIN p \ Range(body)
        valid == {x \in remaining : ValidateTransaction(rt, x).err = ErrNil}
    IN  [x \in valid |-> ValidateTransaction(rt, x).validity]

maintainTransactionPool(body) ==
    /\ pool' = Maintained(pool, body, runtimes[BestBlockHash])
    /\ ccall' = [op |-> "maintainTransactionPool", body |-> body]
    /\ cret' = [err |-> ErrNil]
    /\ UNCHANGED <<blocks, runtimes>>
    /\ UNCHANGED gvars
    /\ UNCHANGED evars
    /\ UNCHANGED tvars
    /\ UNCHANGED lvars
    /\ UNCHANGED kvars
    /\ UNCHANGED rvars
    /\ UNCHANGED hvars

\* blocks are imported, each with its runtime registered
RuntimeNext ==
    \/ \E parent \in DOMAIN blocks, body \in Bodies, code \in Codes :
          handleBlock(parent, body, code)
    \/ /\ ccall.op # "GetRuntime"
       /\ \E hash \in 0 .. MaxBlocks : CallGetRuntime(hash)

\* blocks are imported, extrinsics are pooled, the chain is reorganised from an
\* earlier head to the best block and the pool is maintained
PoolNext ==
    \/ \E parent \in DOMAIN blocks, body \in Bodies, code \in Codes :
          handleBlock(parent, body, code)
    \/ /\ ccall.op # "AddToPool"
       /\ \E ext \in Extrinsics : AddToPool(ext, StaleValidity)
    \/ \E from \in DOMAIN blocks : handleChainReorg(from, BestBlockHash)
    \/ \E body \in Bodies : maintainTransactionPool(body)

-----------------------------------------------------------------------------
(* Specifications *)

\* a node whose epoch state has epoch length 1
Init == GInit /\ NewEpochStateFromGenesis(1) /\ NewEmptyTrie /\ NewCoreService

\* a node with an epoch state of any of the epoch lengths
EpochInit == GInit /\ EInit /\ NewEmptyTrie /\ NewCoreService

\* the GRANDPA vote validator of a node
Spec == Init /\ [][GNext]_vars

\* the epoch state: first slot and epoch of a block
SpecEpochForBlock == EpochInit /\ [][SlotNext]_vars

\* the epoch state: next-epoch data from announcement to finalisation
SpecEpoch == EpochInit /\ [][EpochNext]_vars

\* the epoch state with epochs of one slot: finalisation of announced next-epoch data
SpecFinalize == Init /\ [][FinalizeNext]_vars

\* the epoch state with epochs of one slot: finalisation of announced config data
SpecFinalizeConfig == Init /\ [][FinalizeConfigNext]_vars

\* the epoch state with epochs of one slot: both finalisations side by side
SpecFinalizeBoth == Init /\ [][FinalizeBothNext]_vars

\* the epoch state: epoch data from announcement or persistence to its readers
SpecEpochData == Init /\ [][EpochDataNext]_vars

\* a reader of epoch data concurrent with the finalisation of next-epoch data
SpecConcurrentRead == Init /\ [][ConcurrentReadNext]_vars

\* the epoch state: current epoch and start slots
SpecStartSlot == EpochInit /\ [][StartSlotNext]_vars

\* the block state: block import and the runtime registry
SpecRuntime == Init /\ [][RuntimeNext]_vars

\* the core service: block import, reorganisation and the transaction pool
SpecPool == Init /\ [][PoolNext]_vars

SpecTrieStore == Init /\ [][TrieStoreNext]_vars

SpecTrieDirty == Init /\ [][TrieDirtyNext]_vars

SpecTrieProof == Init /\ [][TrieProofNext]_vars

\* a trie with a child trie, stored on a database whose batches may fail, and loaded
SpecTrieChildStore == Init /\ [][TrieChildStoreNext]_vars

\* a trie with a child trie, written to a database whose batches may fail
SpecTrieChildDirty == Init /\ [][TrieChildDirtyNext]_vars

\* sequences of votes that reach the equivocation check, with round transitions
SpecCurrentVotes == Init /\ [][CurrentVotesNext]_vars

\* validateVoteMessage in two steps under roundLock, with round transitions
SpecRoundLock == Init /\ [][RoundLockNext]_vars

\* receiveVoteMessages with the senders on s.in, the close of s.in and the cancellation
SpecReceiveLoop == Init /\ [][ReceiveLoopNext]_vars

\* the goroutine of receiveVoteMessages keeps running, and a select that finds ctx.Done()
\* ready time and again chooses it in the end (the choice among ready cases is random)
SpecReceiveLoopFair ==
    /\ Init
    /\ [][ReceiveLoopNext]_vars
    /\ WF_vars(SelectReceive)
    /\ WF_vars(Continue)
    /\ WF_vars(SelectClosed)
    /\ SF_vars(SelectDone)

-----------------------------------------------------------------------------
(* Vocabulary of the properties of validateVoteMessage.                      *)
(* A property of one call is stated on the step that makes it: the           *)
(* unprimed variables are the service before the call, call' holds the       *)
(* arguments and the collaborators' answers, ret' what the call returned.    *)

ValidateStep == pc = "idle" /\ pc' = "done"

\* the signature of m is the one its authority makes over the FullVote of m
ValidlySigned(m) ==
    m.message.signature =
        Sign(m.message.authorityID,
             FullVote(m.message.stage, NewVote(m.message.blockHash, m.message.number),
                      m.round, m.setID))

SignedVoteOf(m) ==
    [vote |-> NewVote(m.message.blockHash, m.message.number),
     signature |-> m.message.signature, authorityID |-> m.message.authorityID]

MapsUnchanged ==
    /\ prevotes' = prevotes
    /\ precommits' = precommits
    /\ pvEquivocations' = pvEquivocations
    /\ pcEquivocations' = pcEquivocations

\* m passes the signature, set id and round checks and its authority is a voter
CurrentRoundVote(m) ==
    /\ ValidlySigned(m)
    /\ m.setID = setID
    /\ m.round = round
    /\ m.message.authorityID \in voters

\* the block state knows the block of the call and reports it a descendant of the head
BlockAccepted(c) == c.has /\ c.anc = "descendant"

NormalMap(stage, pv, pcm) == IF stage = "precommit" THEN pcm ELSE pv
EquivocationMap(stage, pve, pce) == IF stage = "precommit" THEN pce ELSE pve

-----------------------------------------------------------------------------
\* C1: when an authority whose vote for hash X is stored for a stage sends a second
\* valid vote of that stage for another hash Y, the call returns ErrEquivocation, the
\* equivocation map of the stage holds both signed votes under that authority and the
\* normal map of the stage has no entry for it any more.
C1_SecondVoteEquivocates ==
    [][ LET m == call'.m
            a == m.message.authorityID
            st == m.message.stage
            stored == NormalMap(st, prevotes, precommits)
        IN  ( /\ ValidateStep
              /\ CurrentRoundVote(m) /\ a # OwnKey /\ BlockAccepted(call')
              /\ Has(stored, a)
              /\ stored[a].signature.over.stage = st
              /\ stored[a].vote.hash # m.message.blockHash )
            => ( /\ ret' = [vote |-> NoVote, err |-> "ErrEquivocation"]
                 /\ Has(EquivocationMap(st, pvEquivocations', pcEquivocations'), a)
                 /\ EquivocationMap(st, pvEquivocations', pcEquivocations')[a]
                      = <<stored[a], SignedVoteOf(m)>>
                 /\ ~Has(NormalMap(st, prevotes', precommits'), a) )
      ]_vars

C1_Witness ==
    /\ pc = "done"
    /\ ret.err = "ErrEquivocation"
    /\ call.m.message.stage = "precommit"
    /\ call.m.message.authorityID = "a1"
    /\ Has(pcEquivocations, "a1")
    /\ Len(pcEquivocations["a1"]) = 2
    /\ pcEquivocations["a1"][1].vote.hash # pcEquivocations["a1"][2].vote.hash
    /\ pcEquivocations["a1"][2] = SignedVoteOf(call.m)
    /\ ~Has(precommits, "a1")

\* C2: for round R >= 1 a validly signed vote of the current set with round R-1 makes
\* the call return errRoundMismatch and send exactly one commit message, built from
\* the header finalised in (R-1, setID), to the peer that sent the vote; the vote is
\* neither stored nor tracked, and a failing send does not change the error.
C2_LaggingVoteGetsCommit ==
    [][ LET m == call'.m
        IN  ( /\ ValidateStep
              /\ round >= 1
              /\ ValidlySigned(m) /\ m.setID = setID /\ m.round = round - 1 )
            => ( /\ ret' = [vote |-> NoVote, err |-> "errRoundMismatch"]
                 /\ Len(sent') = 1
                 /\ sent'[1].to = call'.from
                 /\ sent'[1].msg = [type |-> "commit", round |-> round - 1,
                                    setID |-> setID, hash |-> finalised[round - 1]]
                 /\ MapsUnchanged
                 /\ trackerAdds' = <<>> )
      ]_vars

C2_Witness ==
    /\ pc = "done"
    /\ round = 2
    /\ ValidlySigned(call.m) /\ call.m.setID = setID /\ call.m.round = 1
    /\ ~call.sendOK
    /\ ret.err = "errRoundMismatch"
    /\ Len(sent) = 1 /\ sent[1].to = call.from /\ sent[1].msg.hash = finalised[1]
    /\ ~sent[1].ok

\* C3: a validly signed vote of the current set whose round is below max(0, R-1) or
\* above R+1 is dropped silently: nil vote, nil error, the four maps unchanged,
\* nothing handed to the tracker, nothing sent.
C3_OutOfWindowDropped ==
    [][ LET m == call'.m
        IN  ( /\ ValidateStep
              /\ ValidlySigned(m) /\ m.setID = setID
              /\ \/ m.round < (IF round = 0 THEN 0 ELSE round - 1)
                 \/ m.round > round + 1 )
            => ( /\ ret' = [vote |-> NoVote, err |-> ErrNil]
                 /\ MapsUnchanged
                 /\ trackerAdds' = <<>>
                 /\ sent' = <<>> )
      ]_vars

C3_Witness ==
    /\ pc = "done"
    /\ round = 2
    /\ ValidlySigned(call.m) /\ call.m.setID = setID /\ call.m.round = 0
    /\ ret = [vote |-> NoVote, err |-> ErrNil]
    /\ DOMAIN prevotes # {}
    /\ trackerAdds = <<>> /\ sent = <<>>

\* C4: a validly signed vote whose set id differs from the state's is rejected with
\* ErrSetIDMismatch whatever its round, and changes no map and no tracker entry.
C4_SetIDMismatchRejected ==
    [][ LET m == call'.m
        IN  ( /\ ValidateStep
              /\ ValidlySigned(m) /\ m.setID # setID )
            => ( /\ ret' = [vote |-> NoVote, err |-> "ErrSetIDMismatch"]
                 /\ MapsUnchanged
                 /\ trackerAdds' = <<>>
                 /\ sent' = <<>> )
      ]_vars

C4_Witness ==
    /\ pc = "done"
    /\ ValidlySigned(call.m) /\ call.m.setID < setID
    /\ call.m.round > round + 1
    /\ ret.err = "ErrSetIDMismatch"

\* C5: a vote that passes the checks before the block check (signature, set id,
\* round, voter, not the own key) and whose block the block state does not know
\* (HasHeader false, or IsDescendantOf failing with ErrDescendantNotFound,
\* ErrEndNodeNotFound or ErrStartNodeNotFound) is handed to the tracker under the
\* sending peer and the call returns that error; the vote is not stored.
C5_UnknownBlockDeferred ==
    [][ LET m == call'.m
            notFound == {"ErrDescendantNotFound", "ErrEndNodeNotFound", "ErrStartNodeNotFound"}
        IN  ( /\ ValidateStep
              /\ CurrentRoundVote(m) /\ m.message.authorityID # OwnKey
              /\ (~call'.has \/ call'.anc \in notFound) )
            => ( /\ trackerAdds' = << [from |-> call'.from, msg |-> m] >>
                 /\ ret'.vote = NoVote
                 /\ ret'.err = (IF ~call'.has THEN "ErrBlockDoesNotExist" ELSE call'.anc)
                 /\ MapsUnchanged )
      ]_vars

C5_Witness ==
    /\ pc = "done"
    /\ CurrentRoundVote(call.m)
    /\ call.has /\ call.anc = "ErrStartNodeNotFound"
    /\ ret.err = "ErrStartNodeNotFound"
    /\ trackerAdds = << [from |-> call.from, msg |-> call.m] >>

\* C6: a validly signed vote of the current set with round R+1 is handed to the
\* tracker under the sending peer and the call returns errRoundMismatch; the vote
\* is not stored and no block or equivocation check changes anything.
C6_NextRoundVoteDeferred ==
    [][ LET m == call'.m
        IN  ( /\ ValidateStep
              /\ ValidlySigned(m) /\ m.setID = setID /\ m.round = round + 1 )
            => ( /\ trackerAdds' = << [from |-> call'.from, msg |-> m] >>
                 /\ ret' = [vote |-> NoVote, err |-> "errRoundMismatch"]
                 /\ MapsUnchanged
                 /\ sent' = <<>> )
      ]_vars

C6_Witness ==
    /\ pc = "done"
    /\ ValidlySigned(call.m) /\ call.m.setID = setID /\ call.m.round = round + 1
    /\ call.from = "p2"
    /\ ret.err = "errRoundMismatch"
    /\ trackerAdds = << [from |-> "p2", msg |-> call.m] >>

C8_BadSignatureRejected ==
    [][ LET m == call'.m
        IN  ( ValidateStep /\ ~ValidlySigned(m) )
            => ( /\ ret' = [vote |-> NoVote, err |-> "ErrInvalidSignature"]
                 /\ MapsUnchanged
                 /\ trackerAdds' = <<>>
                 /\ sent' = <<>>
                 /\ UNCHANGED <<round, setID, voters, finalised>> )
      ]_vars

C8_Witness ==
    /\ pc = "done"
    /\ ~ValidlySigned(call.m)
    /\ call.m.message.signature.by = call.m.message.authorityID
    /\ call.m.setID # setID
    /\ call.m.round > round + 1
    /\ ret.err = "ErrInvalidSignature"

-----------------------------------------------------------------------------
\* C21: validateVoteMessage holds roundLock from its first check to its return and a
\* round transition waits for roundLock: every vote in prevotes and precommits was
\* signed for, and checked against, the round that is current while it is stored.
C21_StoredVotesAreOfTheRound ==
    /\ \A a \in DOMAIN prevotes : prevotes[a].signature.over.round = round
    /\ \A a \in DOMAIN precommits : precommits[a].signature.over.round = round

\* a vote has been stored in round 1, after a round transition, by a call that held
\* roundLock between its checks and its store
C21_Witness ==
    /\ pc = "done"
    /\ round = 1
    /\ call.passed
    /\ call.m.round = 1
    /\ ret.err = ErrNil
    /\ Has(precommits, call.m.message.authorityID)
    /\ precommits[call.m.message.authorityID] = SignedVoteOf(call.m)

\* the vote of m does not equivocate: its authority has no equivocation entry in the
\* bucket of the stage, and no vote for another block in the normal map of the bucket
NotEquivocating(m) ==
    LET a == m.message.authorityID
        st == m.message.stage
    IN  /\ ~Has(EquivocationMap(st, pvEquivocations, pcEquivocations), a)
        /\ Has(NormalMap(st, prevotes, precommits), a)
             => NormalMap(st, prevotes, precommits)[a].vote.hash = m.message.blockHash

-----------------------------------------------------------------------------
\* C25: a vote that passes every check is stored under its authority in prevotes when
\* its stage is prevote or primaryProposal and in precommits when it is precommit, the
\* other of the two maps is left as it is, and the call returns the vote with a nil
\* error.
C25_AcceptedVoteStoredOnce ==
    [][ LET m == call'.m
            a == m.message.authorityID
            st == m.message.stage
        IN  ( /\ ValidateStep
              /\ CurrentRoundVote(m) /\ a # OwnKey /\ BlockAccepted(call')
              /\ NotEquivocating(m) )
            => ( /\ ret' = [vote |-> NewVote(m.message.blockHash, m.message.number),
                            err |-> ErrNil]
                 /\ Has(NormalMap(st, prevotes', precommits'), a)
                 /\ NormalMap(st, prevotes', precommits')[a] = SignedVoteOf(m)
                 /\ IF st = "precommit" THEN prevotes' = prevotes
                    ELSE precommits' = precommits
                 /\ pvEquivocations' = pvEquivocations
                 /\ pcEquivocations' = pcEquivocations )
      ]_vars

\* a primary proposal of a1 has been accepted and is in prevotes, not in precommits
C25_Witness ==
    /\ pc = "done"
    /\ call.m.message.stage = "primaryProposal"
    /\ call.m.message.authorityID = "a1"
    /\ ret = [vote |-> NewVote(call.m.message.blockHash, call.m.message.number),
              err |-> ErrNil]
    /\ Has(prevotes, "a1")
    /\ prevotes["a1"] = SignedVoteOf(call.m)
    /\ ~Has(precommits, "a1")

\* the signed votes of authority a that the state holds for the bucket of stage st
VotesHeld(a, st) ==
    LET normal == NormalMap(st, prevotes, precommits)
        eq == EquivocationMap(st, pvEquivocations, pcEquivocations)
    IN  (IF Has(normal, a) THEN {normal[a]} ELSE {})
        \cup (IF Has(eq, a) THEN {eq[a][i] : i \in 1 .. Len(eq[a])} ELSE {})

-----------------------------------------------------------------------------
\* C26: validateVoteMessage returns ErrEquivocation only if the same authority has
\* cast before, in the same round and at the same stage (primaryProposal, prevote and
\* precommit being three stages), a vote for another block hash.
C26_EquivocationOnlyWithinOneStage ==
    [][ LET m == call'.m
            a == m.message.authorityID
            st == m.message.stage
        IN  ( ValidateStep /\ ret'.err = "ErrEquivocation" )
            => \E sv \in VotesHeld(a, st) :
                  /\ sv.signature.over.stage = st
                  /\ sv.signature.over.round = m.round
                  /\ sv.vote.hash # m.message.blockHash
      ]_vars

-----------------------------------------------------------------------------
\* C27: once an authority has an entry in the equivocation map of a stage, every later
\* otherwise valid vote of that stage from it, also one whose hash equals a hash it has
\* voted for before, is appended to its equivocation list and rejected with
\* ErrEquivocation, and is not stored in the normal map.
C27_EquivocatorStaysEquivocator ==
    [][ LET m == call'.m
            a == m.message.authorityID
            st == m.message.stage
            eq == EquivocationMap(st, pvEquivocations, pcEquivocations)
            eqAfter == EquivocationMap(st, pvEquivocations', pcEquivocations')
        IN  ( /\ ValidateStep
              /\ CurrentRoundVote(m) /\ a # OwnKey /\ BlockAccepted(call')
              /\ Has(eq, a) )
            => ( /\ ret' = [vote |-> NoVote, err |-> "ErrEquivocation"]
                 /\ eqAfter = Store(eq, a, Append(eq[a], SignedVoteOf(m)))
                 /\ prevotes' = prevotes
                 /\ precommits' = precommits
                 /\ ~Has(NormalMap(st, prevotes', precommits'), a) )
      ]_vars

\* a1, an equivocator of the precommit stage, has repeated its first precommit: the
\* vote is the third of its list and a1 has no precommit in the normal map
C27_Witness ==
    /\ pc = "done"
    /\ ret.err = "ErrEquivocation"
    /\ call.m.message.stage = "precommit"
    /\ call.m.message.authorityID = "a1"
    /\ Has(pcEquivocations, "a1")
    /\ Len(pcEquivocations["a1"]) = 3
    /\ pcEquivocations["a1"][3] = SignedVoteOf(call.m)
    /\ pcEquivocations["a1"][3].vote.hash = pcEquivocations["a1"][1].vote.hash
    /\ ~Has(precommits, "a1")

\* an equivocation map holds, under each key, a list of at least two signed votes
\* whose first two name different blocks
ListsOfEquivocations(eq) ==
    \A a \in DOMAIN eq :
       /\ Len(eq[a]) >= 2
       /\ eq[a][1].vote.hash # eq[a][2].vote.hash

-----------------------------------------------------------------------------
\* C28: after any sequence of validateVoteMessage calls no authority is at once a key
\* of the normal map and of the equivocation map of one stage bucket, and every
\* equivocation list holds at least two signed votes whose first two entries name
\* different block hashes.
C28_EquivocatorsHaveNoNormalVote ==
    /\ DOMAIN prevotes \cap DOMAIN pvEquivocations = {}
    /\ DOMAIN precommits \cap DOMAIN pcEquivocations = {}
    /\ ListsOfEquivocations(pvEquivocations)
    /\ ListsOfEquivocations(pcEquivocations)

\* a1 equivocates in the prevote bucket, where it has no normal vote any more, while
\* its precommit is in the normal map of the precommit bucket
C28_Witness ==
    /\ pc = "done"
    /\ Has(pvEquivocations, "a1")
    /\ Len(pvEquivocations["a1"]) = 2
    /\ ~Has(prevotes, "a1")
    /\ Has(precommits, "a1")
    /\ ~Has(pcEquivocations, "a1")

\* the step puts a signed vote under a into the map: a becomes a key of it, or its
\* entry changes
Inserted(before, after, a) ==
    /\ Has(after, a)
    /\ Has(before, a) => before[a] # after[a]

-----------------------------------------------------------------------------
\* C29: every signed vote inserted into prevotes or precommits comes from a message of
\* a validateVoteMessage call with a valid signature, the set id and the round of the
\* state at the insertion, an authority that is a voter and not the own key, and a
\* block that is known and a descendant of the head.
C29_OnlyCheckedVotesInserted ==
    [][ \A a \in Keys :
           ( Inserted(prevotes, prevotes', a) \/ Inserted(precommits, precommits', a) )
           => LET m == call'.m
              IN  /\ ValidateStep
                  /\ a = m.message.authorityID
                  /\ NormalMap(m.message.stage, prevotes', precommits')[a] = SignedVoteOf(m)
                  /\ ValidlySigned(m)
                  /\ m.setID = setID
                  /\ m.round = round
                  /\ a \in voters
                  /\ a # OwnKey
                  /\ call'.has
                  /\ call'.anc = "descendant"
      ]_vars

\* a precommit of a2 has been inserted in round 2
C29_Witness ==
    /\ pc = "done"
    /\ round = 2
    /\ ret.err = ErrNil
    /\ call.m.message.authorityID = "a2"
    /\ call.m.message.stage = "precommit"
    /\ Has(precommits, "a2")
    /\ precommits["a2"] = SignedVoteOf(call.m)
    /\ call.has /\ call.anc = "descendant"

-----------------------------------------------------------------------------
(* Vocabulary of the properties of the epoch state *)

\* item i is the first pre-runtime digest of the digest
FirstPreRuntimeDigest(items, i) ==
    /\ i \in 1 .. Len(items)
    /\ items[i].type = "PreRuntimeDigest"
    /\ \A j \in 1 .. (i - 1) : items[j].type # "PreRuntimeDigest"

-----------------------------------------------------------------------------
\* C9: GetEpochForBlock returns epoch 0 when the slot number of the first pre-runtime
\* digest of the header is below firstSlot and (slot - firstSlot) / epochLength, the
\* integer quotient, otherwise; with firstSlot = 1, as after NewEpochStateFromGenesis
\* and SetFirstSlot(1), that is (slot - 1) / epochLength for every slot >= 1.
C9_EpochForBlock ==
    (ecall.op = "GetEpochForBlock" /\ ~ecall.header.isNil) =>
        \A i \in 1 .. Len(ecall.header.digest) :
            LET items == ecall.header.digest
            IN  (FirstPreRuntimeDigest(items, i) /\ items[i].data.kind \in PreDigestKinds) =>
                    LET slot == items[i].data.slot
                    IN  /\ eret.err = ErrNil
                        /\ slot < firstSlot => eret.epoch = 0
                        /\ slot >= firstSlot => eret.epoch = (slot - firstSlot) \div epochLength
                        /\ (firstSlot = 1 /\ slot >= 1) => eret.epoch = (slot - 1) \div epochLength

C9_Witness ==
    /\ ecall.op = "GetEpochForBlock"
    /\ firstSlot = 1
    /\ epochLength = 2
    /\ Len(ecall.header.digest) = 2
    /\ ecall.header.digest[1].type = "SealDigest"
    /\ ecall.header.digest[2].type = "PreRuntimeDigest"
    /\ ecall.header.digest[2].data.kind = "BabeSecondaryPlainPreDigest"
    /\ ecall.header.digest[2].data.slot = 3
    /\ eret = [epoch |-> 1, err |-> ErrNil]

\* C10: when nextEpochData[e][h] is populated, block h is in the header database and
\* epochData[e] is not persisted, FinalizeBABENextEpochData called with a finalized
\* header of epoch e-1 persists that entry as epochData[e] and removes from
\* nextEpochData every epoch key <= e.
C10_FinalizePersistsAnnouncedEntry ==
    [][ \A e \in DOMAIN nextEpochData : \A h \in Hashes :
          ( /\ ecall'.op = "FinalizeBABENextEpochData"
            /\ Has(nextEpochData[e], h)
            /\ h \in headerDB
            /\ ~Has(epochData, e)
            /\ GetEpochForBlock(ecall'.header) = [epoch |-> e - 1, err |-> ErrNil] )
          => ( /\ eret'.err = ErrNil
               /\ Has(epochData', e)
               /\ epochData'[e] = ToEpochDataRaw(ToEpochData(nextEpochData[e][h]))
               /\ \A k \in DOMAIN nextEpochData' : k > e )
      ]_vars

\* C11: SetFirstSlot succeeds and overwrites firstSlot only while the highest
\* finalised header has number 0; once a block of number >= 1 is finalised every call
\* fails with "first slot has already been set" and firstSlot keeps its value.
C11_FirstSlotSetOnlyBeforeFinality ==
    [][ (ecall'.op = "SetFirstSlot") =>
          IF highestFinalisedNumber = 0
          THEN eret'.err = ErrNil /\ firstSlot' = ecall'.slot
          ELSE eret'.err = "first slot has already been set" /\ firstSlot' = firstSlot
      ]_vars

C11_Witness ==
    /\ ecall.op = "SetFirstSlot"
    /\ highestFinalisedNumber >= 1
    /\ eret.err = "first slot has already been set"
    /\ firstSlot = 3
    /\ ecall.slot = 0

C13_StartSlotOfCurrentEpoch ==
    (ecall.op = "GetStartSlotForEpoch") =>
        LET epoch == IF ecall.epoch = 0 THEN currentEpoch ELSE ecall.epoch
        IN  /\ eret.err = ErrNil
            /\ eret.slot = firstSlot + epochLength * epoch

-----------------------------------------------------------------------------
(* Claims on the state trie and its database *)

RECURSIVE EntriesBelow(_, _)
\* the pairs (key in nibbles, value) held by the node and its descendants
EntriesBelow(n, prefix) ==
    IF n = NilNode THEN {}
    ELSE (IF n.value # NoValue THEN {<<prefix \o n.key, n.value>>} ELSE {})
         \cup UNION {EntriesBelow(n.children[i], prefix \o n.key \o <<i>>) :
                        i \in DOMAIN n.children}

\* the pairs the callers have put in the trie, keys in nibbles
EntriesPut == {<<KeyLEToNibbles(k), tkv[k]>> : k \in DOMAIN tkv}

\* the trie in memory has been stored and not been changed since
Stored == troot = NilNode \/ ~troot.dirty

C15_GetFromDBReturnsWhatTrieHolds ==
    (tcall.op = "GetFromDB" /\ Stored) =>
        /\ tret.err = ErrNil
        /\ tret.value = IF tcall.key \in DOMAIN tkv THEN tkv[tcall.key] ELSE NoValue

\* the hash a parent refers to the node by, computed from the contents of the node
ReferenceTo(n) == MerkleValue(Encode(Touched(n)))

\* C16: after WriteDirty, whatever Put, Delete and ClearPrefix calls came before it, the
\* hash of every node reachable from the root that is neither the root nor inlined is a
\* key of the database.
C16_WrittenNodesAreStored ==
    (tcall.op = "WriteDirty") =>
        \A n \in Subtrees(troot) \ {troot} :
            ~ReferenceTo(n).inline => ReferenceTo(n) \in DOMAIN tdb

\* the value of key 0x00 has been changed and written; the hashed leaf of key 0x0000
\* was written with the earlier root and is still referred to by the new root
C16_Witness ==
    /\ tcall.op = "WriteDirty"
    /\ tkv = (<<0>> :> "v") @@ (<<0, 0>> :> "V")
    /\ TrieHash(BuildTrie((<<0>> :> "V") @@ (<<0, 0>> :> "V"))) \in DOMAIN tdb
    /\ TrieHash(troot) \in DOMAIN tdb
    /\ Cardinality(DOMAIN tdb) = 3
    /\ ~ReferenceTo(troot.children[0]).inline

\* the entries of the proof handed to LoadFromProof
ProofEntries == {tcall.proof[i] : i \in 1 .. Len(tcall.proof)}

RECURSIVE PathBelowInProof(_, _)
\* below the node n of the trie the proof was taken from, every node on the way to the
\* key is an entry of the proof or a leaf inlined in its parent
PathBelowInProof(n, key) ==
    IF n.type = "leaf" \/ n.key = key
    THEN TRUE
    ELSE LET child == n.children[key[Len(n.key) + 1]]
         IN  /\ \/ child.type = "leaf" /\ ReferenceTo(child).inline
                \/ Encode(Touched(child)) \in ProofEntries
             /\ PathBelowInProof(child, Drop(key, Len(n.key) + 1))

\* the whole path of a key of the trie lies in the proof
PathInProof(key) ==
    /\ Encode(Touched(troot)) \in ProofEntries
    /\ PathBelowInProof(troot, KeyLEToNibbles(key))

\* C17: after a successful LoadFromProof, Get returns the value of every key of the trie
\* whose whole path lies in the proof and nil for the keys whose path leaves the proof;
\* a child the proof does not hold stays a pointer that holds only its hash.
C17_ProofPathsAreReadable ==
    (tcall.op = "LoadFromProof" /\ tret.err = ErrNil) =>
        /\ \A k \in DOMAIN tkv :
              Get(tret.root, k) = IF PathInProof(k) THEN tkv[k] ELSE NoValue
        /\ \A n \in Subtrees(tret.root) :
              n.digest \notin {MerkleValue(e) : e \in ProofEntries} => n = HashPointer(n.digest) \/ n.digest = NoDigest

\* the proof holds the root and the branch below it: the key of the branch above is
\* read, the inlined leaf of key 0x0001 is read, the hashed leaf of key 0x0000 is a pointer
C17_Witness ==
    /\ tcall.op = "LoadFromProof"
    /\ tret.err = ErrNil
    /\ tkv = (<<0>> :> "v") @@ (<<0, 0>> :> "V") @@ (<<0, 1>> :> "v")
    /\ Len(tcall.proof) = 2
    /\ PathInProof(<<0, 1>>) /\ Get(tret.root, <<0, 1>>) = "v"
    /\ ~PathInProof(<<0, 0>>) /\ Get(tret.root, <<0, 0>>) = NoValue
    /\ tret.root.children[0].children[0] = HashPointer(ReferenceTo(troot.children[0].children[0]))

\* C18: LoadFromProof fails with ErrEmptyProof for an empty proof, and with ErrDecodeNode
\* and the index of the entry when an entry cannot be decoded, wherever the entry is.
C18_MalformedProofRejected ==
    (tcall.op = "LoadFromProof") =>
        /\ Len(tcall.proof) = 0 => tret.err = ErrEmptyProof
        /\ \A i \in 1 .. Len(tcall.proof) :
              (/\ tcall.proof[i] = MalformedEncoding
               /\ \A j \in 1 .. (i - 1) : tcall.proof[j] # MalformedEncoding)
              => tret.err = ErrDecodeNode /\ tret.index = i - 1

\* the last of three entries is malformed, after the root and a node below it
C18_Witness ==
    /\ tcall.op = "LoadFromProof"
    /\ Len(tcall.proof) = 3
    /\ tcall.proof[1] = Encode(Touched(troot))
    /\ tcall.proof[2] \notin {MalformedEncoding, tcall.proof[1]}
    /\ tcall.proof[3] = MalformedEncoding
    /\ tret.err = ErrDecodeNode /\ tret.index = 2

-----------------------------------------------------------------------------
(* Claims on receiveVoteMessages *)

\* C19: once s.in is closed or ctx is cancelled, receiveVoteMessages eventually returns;
\* every message it receives that is not nil is handed to validateVoteMessage exactly
\* once, a nil message never is, and an error of validateVoteMessage sends the loop back
\* to the select.
C19_ReceiveLoopTerminates ==
    /\ (inClosed \/ ctxDone) ~> (pc = "returned")
    /\ [][ (reads' = reads + 1) =>
              IF Head(inq).isNil \/ Head(inq).msgIsNil
              THEN calls' = calls /\ pc' = "idle"
              ELSE /\ calls' = calls + 1
                   /\ call'.from = Head(inq).from
                   /\ call'.m = Head(inq).msg ]_vars
    /\ [][ (calls' # calls) => (reads' = reads + 1) ]_vars
    /\ [][ (pc = "done" /\ pc' # "done") => (pc' = "idle") ]_vars

\* the loop has returned on the closed channel after three messages, two of them handed
\* to validateVoteMessage, while ctx was never cancelled
C19_Witness ==
    /\ pc = "returned"
    /\ inClosed /\ ~ctxDone
    /\ inq = <<>>
    /\ reads = 3
    /\ calls = 2

\* C20: once ctx is cancelled, receiveVoteMessages validates and stores no further vote
\* of the messages still queued on s.in.
C20_NoVoteAfterCancellation ==
    [][ ctxDone =>
          /\ calls' = calls
          /\ prevotes' = prevotes
          /\ precommits' = precommits ]_vars

-----------------------------------------------------------------------------
(* Claims on the finalisation of next-epoch data *)

\* the epoch after the epoch of the header of the FinalizeBABENextEpochData call c
NextEpochOf(c) == UAdd(GetEpochForBlock(c.header).epoch, 1)

\* C30: when the data of the epoch after the finalised header's epoch is already
\* persisted, FinalizeBABENextEpochData returns nil, does not rewrite the persisted
\* epoch data and leaves every entry of nextEpochData in place, also those of epochs
\* up to that epoch.
C30_FinalizeIsNoOpWhenPersisted ==
    [][ ( /\ ecall'.op = "FinalizeBABENextEpochData"
          /\ GetEpochForBlock(ecall'.header).err = ErrNil
          /\ Has(epochData, NextEpochOf(ecall')) )
        => ( /\ eret' = [err |-> ErrNil]
             /\ epochData' = epochData
             /\ nextEpochData' = nextEpochData )
      ]_vars

\* a call has returned nil with the data of the next epoch persisted and an
\* announcement for that epoch, which a call that persists would have removed, still
\* in memory
C30_Witness ==
    /\ ecall.op = "FinalizeBABENextEpochData"
    /\ eret = [err |-> ErrNil]
    /\ GetEpochForBlock(ecall.header).err = ErrNil
    /\ NextEpochOf(ecall) = 1
    /\ Has(epochData, 1)
    /\ Has(nextEpochData, 1)
    /\ \E hash \in DOMAIN nextEpochData[1] :
          /\ HasHeaderInDatabase(hash)
          /\ ToEpochDataRaw(ToEpochData(nextEpochData[1][hash])) # epochData[1]

\* C31: FinalizeBABENextEpochData fails with ErrEpochNotInMemory when nextEpochData
\* has no entries for nextEpoch and with the hash-not-persisted error when none of the
\* announcing block hashes of nextEpoch is in the header database; in both cases the
\* persisted epochData table and the nextEpochData map are as before the call.
C31_FinalizeFailsWithoutFinalisedAnnouncement ==
    [][ ( /\ ecall'.op = "FinalizeBABENextEpochData"
          /\ GetEpochForBlock(ecall'.header).err = ErrNil
          /\ ~Has(epochData, NextEpochOf(ecall')) )
        => LET nextEpoch == NextEpochOf(ecall')
           IN  /\ ~Has(nextEpochData, nextEpoch)
                    => /\ eret' = [err |-> "ErrEpochNotInMemory"]
                       /\ epochData' = epochData
                       /\ nextEpochData' = nextEpochData
               /\ ( /\ Has(nextEpochData, nextEpoch)
                    /\ \A hash \in DOMAIN nextEpochData[nextEpoch] :
                          ~HasHeaderInDatabase(hash) )
                    => /\ eret' = [err |-> "errHashNotPersisted"]
                       /\ epochData' = epochData
                       /\ nextEpochData' = nextEpochData
      ]_vars

\* a call has failed with the hash-not-persisted error: epoch 1 was announced by b1
\* alone while the header database holds b2 alone, and the announcement is still
\* in memory with epoch 1 not persisted
C31_Witness ==
    /\ ecall.op = "FinalizeBABENextEpochData"
    /\ eret = [err |-> "errHashNotPersisted"]
    /\ NextEpochOf(ecall) = 1
    /\ ~Has(epochData, 1)
    /\ Has(nextEpochData, 1)
    /\ DOMAIN nextEpochData[1] = {"b1"}
    /\ headerDB = {"b2"}

\* C32: FinalizeBABENextConfigData follows the procedure of the epoch-data
\* finalisation, except that a missing in-memory epoch is not an error: when
\* nextConfigData has no entries for nextEpoch it returns nil and changes neither
\* configData, latestConfigEpoch nor nextConfigData, while entries whose announcing
\* blocks are not in the header database still make it fail.
C32_ConfigFinalizeToleratesMissingEpoch ==
    [][ ( /\ ecall'.op = "FinalizeBABENextConfigData"
          /\ GetEpochForBlock(ecall'.header).err = ErrNil )
        => LET nextEpoch == NextEpochOf(ecall')
               persisted == IF Has(nextConfigData, nextEpoch)
                            THEN {hash \in DOMAIN nextConfigData[nextEpoch] :
                                     HasHeaderInDatabase(hash)}
                            ELSE {}
               unchanged == /\ configData' = configData
                            /\ latestConfigEpoch' = latestConfigEpoch
                            /\ nextConfigData' = nextConfigData
           IN  IF Has(configData, nextEpoch) \/ ~Has(nextConfigData, nextEpoch)
               THEN eret' = [err |-> ErrNil] /\ unchanged
               ELSE IF persisted = {}
               THEN eret' = [err |-> "errHashNotPersisted"] /\ unchanged
               ELSE /\ eret' = [err |-> ErrNil]
                    /\ \E hash \in persisted :
                          configData' =
                             Store(configData, nextEpoch,
                                   EncodeConfigData(ToConfigData(nextConfigData[nextEpoch][hash])))
                    /\ latestConfigEpoch' = nextEpoch
                    /\ nextConfigData' = RemovePreviousEpochs(nextConfigData, nextEpoch)
      ]_vars

\* a call for a header of epoch 1 has returned nil with no config data for epoch 2,
\* neither persisted nor in memory, while an announcement for epoch 1 with a persisted
\* header is still in memory
C32_Witness ==
    /\ ecall.op = "FinalizeBABENextConfigData"
    /\ eret = [err |-> ErrNil]
    /\ GetEpochForBlock(ecall.header).err = ErrNil
    /\ NextEpochOf(ecall) = 2
    /\ ~Has(configData, 2)
    /\ ~Has(nextConfigData, 2)
    /\ Has(nextConfigData, 1)
    /\ \E hash \in DOMAIN nextConfigData[1] : HasHeaderInDatabase(hash)
    /\ latestConfigEpoch = 0

\* C33: a successful FinalizeBABENextEpochData changes only epochData[nextEpoch] and
\* the nextEpochData keys <= nextEpoch: the nextEpochData entries of later epochs,
\* every other persisted epochData entry, configData, latestConfigEpoch,
\* nextConfigData, firstSlot and currentEpoch are unchanged; and
\* FinalizeBABENextConfigData never touches epochData or nextEpochData.
C33_FinalizeFrame ==
    [][ /\ ( ecall'.op = "FinalizeBABENextEpochData" /\ eret'.err = ErrNil )
           => LET nextEpoch == NextEpochOf(ecall')
              IN  /\ DOMAIN epochData' \subseteq DOMAIN epochData \cup {nextEpoch}
                  /\ \A e \in DOMAIN epochData :
                        e # nextEpoch => Has(epochData', e) /\ epochData'[e] = epochData[e]
                  /\ DOMAIN nextEpochData' \subseteq DOMAIN nextEpochData
                  /\ \A e \in DOMAIN nextEpochData :
                        e > nextEpoch
                           => Has(nextEpochData', e) /\ nextEpochData'[e] = nextEpochData[e]
                  /\ configData' = configData
                  /\ latestConfigEpoch' = latestConfigEpoch
                  /\ nextConfigData' = nextConfigData
                  /\ firstSlot' = firstSlot
                  /\ currentEpoch' = currentEpoch
        /\ ecall'.op = "FinalizeBABENextConfigData"
           => /\ epochData' = epochData
              /\ nextEpochData' = nextEpochData
              /\ firstSlot' = firstSlot
              /\ currentEpoch' = currentEpoch
      ]_vars

\* a call has persisted the data of epoch 1 and purged its announcement while the
\* announcement of epoch 2 stays in memory, next to a config announcement for epoch 1
C33_Witness ==
    /\ ecall.op = "FinalizeBABENextEpochData"
    /\ eret = [err |-> ErrNil]
    /\ NextEpochOf(ecall) = 1
    /\ Has(epochData, 1)
    /\ DOMAIN nextEpochData = {2}
    /\ Has(nextConfigData, 1)
    /\ ~Has(configData, 1)

\* C34: FinalizeBABENextEpochData is deterministic: for a given epoch state, block
\* state and finalized header the data it persists as epochData[nextEpoch] is
\* uniquely determined, also when several forks announced different data for
\* nextEpoch and more than one announcing header is in the header database. Whatever
\* the call may persist, it persists in each of its outcomes.
C34_FinalizedDataIsDetermined ==
    [][ ( /\ ecall'.op = "FinalizeBABENextEpochData"
          /\ GetEpochForBlock(ecall'.header).err = ErrNil
          /\ ~Has(epochData, NextEpochOf(ecall'))
          /\ eret'.err = ErrNil )
        => LET nextEpoch == NextEpochOf(ecall')
           IN  \A found \in findFinalizedHeaderForEpoch(nextEpochData, nextEpoch) :
                  epochData'[nextEpoch]
                     = ToEpochDataRaw(ToEpochData(nextEpochData[nextEpoch][found.hash]))
      ]_vars

\* C35: promotion is atomic for readers. A GetEpochData(e, header) call that runs
\* concurrently with FinalizeBABENextEpochData, and for which the data of epoch e is
\* at every instant persisted in epochData[e] or held in nextEpochData[e] under an
\* ancestor of header, never fails with ErrEpochNotInMemory.
C35_ReadNeverMissesPromotedData ==
    [][ ( /\ reading.pc = "memory"
          /\ reading'.pc = "idle"
          /\ reading.held
          /\ \/ Has(epochData, reading.epoch)
             \/ HeldUnderAncestor(reading.epoch, reading.anc) )
        => eret'.err # "ErrEpochNotInMemory"
      ]_vars

-----------------------------------------------------------------------------
(* Claims on the core service *)

\* C22: HandleRuntimeChanges registers under newBlockHash the parent runtime when the
\* code under ":code" hashes to the parent runtime's code hash and a newly
\* instantiated runtime of that code otherwise, and changes the runtime of no other
\* block hash.
C22_RuntimeRegisteredForNewBlockOnly ==
    [][ ccall'.op = "handleBlock"
        => LET hash == ccall'.hash
               parentRt == runtimes[ccall'.parent]
           IN  /\ DOMAIN runtimes' = DOMAIN runtimes \cup {hash}
               /\ \A k \in DOMAIN runtimes : k # hash => runtimes'[k] = runtimes[k]
               /\ IF CodeHash(ccall'.code) = parentRt.codeHash
                  THEN runtimes'[hash] = parentRt
                  ELSE runtimes'[hash] = NewInstance(ccall'.code, hash)
      ]_vars

\* two blocks on the genesis block, the first with the code of the genesis runtime,
\* the second with new code: GetRuntime of the first returns the genesis runtime
\* while the second has a runtime of its own
C22_Witness ==
    /\ ccall = [op |-> "GetRuntime", hash |-> 1]
    /\ Has(blocks, 1) /\ Has(blocks, 2)
    /\ blocks[1].parent = GenesisHash
    /\ blocks[2].parent = GenesisHash
    /\ cret = [runtime |-> runtimes[GenesisHash], err |-> ErrNil]
    /\ runtimes[2] = NewInstance("code1", 2)
    /\ runtimes[GenesisHash] = NewInstance("code0", GenesisHash)

\* the extrinsics of the blocks that are on the branch of from and not on that of to
OffBranchExtrinsics(from, to) ==
    UNION {Range(blocks[h].body) : h \in Ancestors(from) \ Ancestors(to)}

-----------------------------------------------------------------------------
(* Claims on the root a proof is loaded under *)

\* C40: when LoadFromProof(proof, rootHash) returns nil, the root of the trie is the
\* proof node whose hash is rootHash; when no proof node hashes to rootHash the call
\* ends with an error, without keeping the previous root and without dereferencing a
\* nil root; when the call fails the root of the trie is the one it had before.
C40_RootComesFromTheProof ==
    (tcall.op = "LoadFromProof") =>
        LET rootHash == TrieHash(troot)
            hashes == {MerkleValue(e) : e \in ProofEntries \ {MalformedEncoding}}
        IN  /\ tret.err = ErrNil =>
                  /\ rootHash \in hashes
                  /\ tret.root.digest = rootHash
            /\ rootHash \notin hashes => tret.err \notin {ErrNil, NilDereference}
            /\ tret.err # ErrNil => tret.root = NilNode

-----------------------------------------------------------------------------
(* Claims on the child tries and on the failures of the batches *)

RECURSIVE DirtyNodes(_, _)
\* the dirty nodes at and below n, each as the child indexes that lead to it
DirtyNodes(n, path) ==
    IF n = NilNode
    THEN {}
    ELSE (IF n.dirty THEN {path} ELSE {})
            \cup UNION {DirtyNodes(n.children[i], path \o <<i>>) : i \in DOMAIN n.children}

\* C36: WriteDirty marks a dirty node clean only after the batch that holds its
\* encoding was flushed: when WriteDirty returns an error (of a Put in the batch or of
\* the Flush), every node that was dirty before the call is still dirty.
C36_FailedWriteKeepsNodesDirty ==
    [][ (tcall'.op = "WriteDirty" /\ tret'.err # ErrNil)
        => /\ DirtyNodes(troot, <<>>) \subseteq DirtyNodes(troot', <<>>)
           /\ \A h \in DOMAIN childTries :
                 DirtyNodes(childTries[h], <<>>) \subseteq DirtyNodes(childTries'[h], <<>>)
      ]_vars

\* C37: Store and WriteDirty make no partial writes: when either returns an error
\* raised while its batch is built, the database holds exactly the keys and values it
\* held before the call, for a trie with or without child tries.
C37_FailedBatchWritesNothing ==
    [][ (tcall'.op \in {"Store", "WriteDirty"} /\ tret'.err = ErrPut) => tdb' = tdb ]_vars

\* C38: after a successful WriteDirty on a trie with registered child tries, every
\* dirty node of every child trie is in the database and is clean, whatever the root
\* of the trie is: a dirty branch, a leaf, a clean node or nil.
C38_ChildTriesAreWritten ==
    [][ (tcall'.op = "WriteDirty" /\ tret'.err = ErrNil)
        => \A h \in DOMAIN childTries :
              /\ AllClean(childTries'[h])
              /\ \A n \in Subtrees(childTries[h]) :
                    n.dirty =>
                       LET eh == EncodeAndHash(n, n = childTries[h])
                       IN  eh.hash \in DOMAIN tdb' /\ tdb'[eh.hash] = eh.encoding
      ]_vars

\* C39: after a successful Load, for every key of the loaded trie that starts with the
\* prefix of the child storage keys, the child trie whose root hash is the value of the
\* key is loaded from the database and registered under its own hash; also when the
\* loaded root is a single leaf.
C39_ChildTriesAreLoaded ==
    (tcall.op = "Load" /\ tret.err = ErrNil) =>
        \A p \in ChildStoragePairs(tret.root) :
           LET rootHash == BytesToHash(p[2])
           IN  /\ rootHash \in DOMAIN tret.tries
               /\ TrieHash(tret.tries[rootHash]) = rootHash
               /\ tret.tries[rootHash] = Load(tdb, rootHash).node

====
